---- MODULE Spec2Model ----
(***************************************************************************)
(* A model of the TITAN backtest engine: the simulated execution ledger    *)
(* (BacktestSniperModule), the IPDA phase state machine                    *)
(* (IPDAStateMachine) and the backtest replay loop (Backtester/BacktestBot)*)
(*                                                                         *)
(* Units.  Prices are integers counted in pips (price * 10000), so the     *)
(* code's `pip_diff * 10000` is the integer difference of two prices.      *)
(* Volumes are in hundredths of a lot, money is in cents, so that           *)
(* pnl = pip_diff * 10 * volume as in the code.  Times are in minutes.     *)
(* Floating point arithmetic is taken as exact.                            *)
(* Python's None is the empty tuple <<>>, a present value x is <<x>>.      *)
(***************************************************************************)
EXTENDS Integers, Sequences, FiniteSets, TLC

VARIABLES
    \* BacktestSniperModule
    balance, equity, open_positions, _next_ticket, history,
    \* the call made last on the ledger, and the exception it raised
    last_call, raised,
    \* IPDAStateMachine
    _current_phase, _phase_start_time, _phase_data,
    \* the wall clock read by datetime.utcnow()
    utcnow,
    \* the call made last on the state machine, and the exception it raised
    sm_call, sm_raised,
    \* Backtester.run: the bars fetched, the loop index and the place in the loop body
    historical_data, i, run_pc,
    \* BacktestBot
    asian_range, recently_traded_timestamps,
    \* RiskWarden
    current_balance, today_pnl, high_water_mark,
    \* NewsFilter (events are the mock events of the last fetch)
    last_fetch_time,
    \* what the last tick of the bot did
    last_tick,
    \* the call made last, on its own, on MarketScanner, TimeKeeper or
    \* BacktestBot.find_and_execute_trade: the window (or time) handed over,
    \* the arguments, the value returned and the exception raised; a call on
    \* BacktestDataStream is recorded here too
    scan,
    \* a BacktestDataStream: its fields
    data_stream

sniperVars == <<balance, equity, open_positions, _next_ticket, history, last_call, raised>>
smVars == <<_current_phase, _phase_start_time, _phase_data, utcnow, sm_call, sm_raised>>
botVars == <<asian_range, recently_traded_timestamps, current_balance, today_pnl,
             high_water_mark, last_fetch_time, last_tick>>
runVars == <<historical_data, i, run_pc, botVars, scan, data_stream>>
vars == <<sniperVars, smVars, runVars>>

None == <<>>
Some(x) == <<x>>

\* no call has been made on the window (or time) `input`
NotScanned(input) ==
    [op |-> "none", window |-> input, args |-> <<>>, result |-> None, raised |-> "none"]

(***************************************************************************)
(* Bounds of the model.                                                    *)
(***************************************************************************)
MaxTickets == 2
\* the wall clock runs for at most MaxClock minutes, in steps of ClockSteps
MaxClock == 30
ClockSteps == {10}
\* the program starts at wall time RunStart, after the last bar of any history
RunStart == 10 * 24 * 60
\* Backtester.run goes through at most MaxRunBars bars
MaxRunBars == 3
\* MarketScanner is called on windows of at most MaxWindowLen bars
MaxWindowLen == 5

Tickets == 1..MaxTickets
\* open_trade's inputs <<trade_type, lot_size, price, stop_loss, take_profit>>:
\* a long and a short around the price 2, each with the stop on its proper
\* side and with stop and target swapped
Signals ==
    {<<"buy", 2, 2, 1, 3>>, <<"buy", 2, 2, 3, 1>>,
     <<"sell", 2, 2, 3, 1>>, <<"sell", 2, 2, 1, 3>>}
\* bars <<high, low>>: touching both 1 and 3, neither, 3 only, 1 only
Bars == {<<3, 1>>, <<2, 2>>, <<3, 2>>, <<2, 1>>}
ClosePrices == {1, 3}
Times == {1}
\* $100,000, in cents
InitialBalance == 100000 * 100

(***************************************************************************)
(* BacktestSniperModule                                                    *)
(***************************************************************************)
PipValuePerLot == 10

RECURSIVE SumOver(_, _)
SumOver(f, S) ==
    IF S = {} THEN 0
    ELSE LET x == CHOOSE y \in S : TRUE
         IN f[x] + SumOver(f, S \ {x})

\* dict.pop(k): the dict without key k
Pop(d, k) == [t \in DOMAIN d \ {k} |-> d[t]]

\* d[k] = v, for a key that may be new
Put(d, k, v) == [t \in DOMAIN d \cup {k} |-> IF t = k THEN v ELSE d[t]]

InitSniper ==
    /\ balance = InitialBalance
    /\ equity = InitialBalance
    /\ open_positions = <<>>
    /\ _next_ticket = 1
    /\ history = <<>>
    /\ last_call = [op |-> "__init__", args |-> <<>>]
    /\ raised = "none"

TradeDetails(ticket, trade_type, lot_size, price, stop_loss, take_profit) ==
    [ticket |-> ticket, symbol |-> "EURUSD", type |-> trade_type,
     entry_price |-> price, sl |-> stop_loss, tp |-> take_profit,
     volume |-> lot_size, open_time |-> None, pnl |-> 0]

\* mutant: the ticket counter is not advanced
OpenTradeNoIncrement(trade_type, lot_size, price, stop_loss, take_profit) ==
    /\ open_positions' = Put(open_positions, _next_ticket,
            TradeDetails(_next_ticket, trade_type, lot_size, price, stop_loss, take_profit))
    /\ UNCHANGED <<_next_ticket, balance, equity, history>>

\* mutant: the ticket is the number of open positions plus one
OpenTradeTicketFromCount(trade_type, lot_size, price, stop_loss, take_profit) ==
    LET k == Cardinality(DOMAIN open_positions) + 1
    IN /\ open_positions' = Put(open_positions, k,
               TradeDetails(k, trade_type, lot_size, price, stop_loss, take_profit))
       /\ _next_ticket' = _next_ticket + 1
       /\ UNCHANGED <<balance, equity, history>>

\* the ledger after open_trade
OpenTradeEffect(trade_type, lot_size, price, stop_loss, take_profit) ==
    /\ open_positions' = Put(open_positions, _next_ticket,
            TradeDetails(_next_ticket, trade_type, lot_size, price, stop_loss, take_profit))
    /\ _next_ticket' = _next_ticket + 1
    /\ UNCHANGED <<balance, equity, history>>

OpenTrade(trade_type, lot_size, price, stop_loss, take_profit) ==
    /\ _next_ticket <= MaxTickets
    /\ OpenTradeEffect(trade_type, lot_size, price, stop_loss, take_profit)
    /\ last_call' = [op |-> "open_trade", args |-> <<_next_ticket>>]
    /\ raised' = "none"

\* pnl of `trade` closed at close_price
Pnl(trade, close_price) ==
    LET pip_diff == IF trade.type = "buy"
                    THEN close_price - trade.entry_price
                    ELSE trade.entry_price - close_price
    IN pip_diff * PipValuePerLot * trade.volume

\* mutant: trade['pnl'] is left as open_trade set it
ClosedTradePnlUnset(trade, close_price, close_time) ==
    [ticket |-> trade.ticket, symbol |-> trade.symbol, type |-> trade.type,
     entry_price |-> trade.entry_price, sl |-> trade.sl, tp |-> trade.tp,
     volume |-> trade.volume, open_time |-> trade.open_time,
     pnl |-> trade.pnl,
     close_price |-> close_price, close_time |-> close_time]

\* the closed trade as appended to history
ClosedTrade(trade, close_price, close_time) ==
    [ticket |-> trade.ticket, symbol |-> trade.symbol, type |-> trade.type,
     entry_price |-> trade.entry_price, sl |-> trade.sl, tp |-> trade.tp,
     volume |-> trade.volume, open_time |-> trade.open_time,
     pnl |-> Pnl(trade, close_price),
     close_price |-> close_price, close_time |-> close_time]

\* mutant: equity is not brought up to the new balance
CloseTradeEquityStale(positions, ticket_id, close_price, close_time) ==
    IF ticket_id \notin DOMAIN positions
    THEN /\ open_positions' = positions
         /\ UNCHANGED <<balance, equity, history, _next_ticket>>
    ELSE LET trade == positions[ticket_id]
         IN /\ open_positions' = Pop(positions, ticket_id)
            /\ balance' = balance + Pnl(trade, close_price)
            /\ history' = Append(history, ClosedTrade(trade, close_price, close_time))
            /\ UNCHANGED <<equity, _next_ticket>>

\* the ledger after close_trade on the positions `positions`
CloseTradeEffect(positions, ticket_id, close_price, close_time) ==
    IF ticket_id \notin DOMAIN positions
    THEN /\ open_positions' = positions
         /\ UNCHANGED <<balance, equity, history, _next_ticket>>
    ELSE LET trade == positions[ticket_id]
         IN /\ open_positions' = Pop(positions, ticket_id)
            /\ balance' = balance + Pnl(trade, close_price)
            /\ equity' = balance + Pnl(trade, close_price)
            /\ history' = Append(history, ClosedTrade(trade, close_price, close_time))
            /\ UNCHANGED _next_ticket

\* mutant: no check that the ticket is open, so that pop raises
CloseTradeUnguarded(ticket_id, close_price, close_time) ==
    /\ last_call' = [op |-> "close_trade", args |-> <<ticket_id, close_price>>]
    /\ IF ticket_id \notin DOMAIN open_positions
       THEN /\ raised' = "KeyError"
            /\ UNCHANGED <<open_positions, balance, equity, history, _next_ticket>>
       ELSE /\ raised' = "none"
            /\ CloseTradeEffect(open_positions, ticket_id, close_price, close_time)

CloseTrade(ticket_id, close_price, close_time) ==
    /\ CloseTradeEffect(open_positions, ticket_id, close_price, close_time)
    /\ last_call' = [op |-> "close_trade", args |-> <<ticket_id, close_price>>]
    /\ raised' = "none"

\* which of stop and target the bar (high, low) resolves for `trade`
Hit(trade, high, low) ==
    IF trade.type = "buy"
    THEN IF low <= trade.sl THEN "sl"
         ELSE IF high >= trade.tp THEN "tp" ELSE "none"
    ELSE IF trade.type = "sell"
    THEN IF high >= trade.sl THEN "sl"
         ELSE IF low <= trade.tp THEN "tp" ELSE "none"
    ELSE "none"

HitPrice(trade, high, low) ==
    IF Hit(trade, high, low) = "sl" THEN trade.sl ELSE trade.tp

\* The first position, in the dict's (insertion = ticket) order, that the bar
\* closes; 0 when the bar closes none.
FirstHit(positions, high, low) ==
    LET hits == {t \in DOMAIN positions : Hit(positions[t], high, low) # "none"}
    IN IF hits = {} THEN 0
       ELSE CHOOSE t \in hits : \A u \in hits : t <= u

StampOpenTime(trade, current_time) ==
    IF trade.open_time = None
    THEN [trade EXCEPT !.open_time = Some(current_time)]
    ELSE trade

\* The loop over open_positions.items() visits the positions in order; the
\* first close pops the dict under iteration, and the iterator's next step
\* raises RuntimeError("dictionary changed size during iteration"): the
\* positions behind it are not visited and the clean-up loop is not reached.
UpdateAndCheckPositionsEffect(high, low, current_time) ==
    LET k == FirstHit(open_positions, high, low)
        visited == [t \in DOMAIN open_positions |->
                       IF k = 0 \/ t <= k
                       THEN StampOpenTime(open_positions[t], current_time)
                       ELSE open_positions[t]]
    IN IF k = 0
       THEN /\ open_positions' = visited
            /\ UNCHANGED <<balance, equity, history, _next_ticket>>
            /\ raised' = "none"
       ELSE /\ CloseTradeEffect(visited, k, HitPrice(visited[k], high, low), current_time)
            /\ raised' = "RuntimeError"

UpdateAndCheckPositions(high, low, current_time) ==
    /\ UpdateAndCheckPositionsEffect(high, low, current_time)
    /\ last_call' = [op |-> "update_and_check_positions", args |-> <<high, low>>]

SniperOpenTrade ==
    /\ \E s \in Signals : OpenTrade(s[1], s[2], s[3], s[4], s[5])
    /\ UNCHANGED <<smVars, runVars>>

SniperCloseTrade ==
    /\ \E t \in Tickets, p \in ClosePrices, tm \in Times : CloseTrade(t, p, tm)
    /\ UNCHANGED <<smVars, runVars>>

SniperUpdateAndCheckPositions ==
    /\ \E b \in Bars, tm \in Times : UpdateAndCheckPositions(b[1], b[2], tm)
    /\ UNCHANGED <<smVars, runVars>>

NextSniper == SniperOpenTrade \/ SniperCloseTrade \/ SniperUpdateAndCheckPositions

(***************************************************************************)
(* IPDAStateMachine                                                        *)
(*                                                                         *)
(* A MarketPhase member is written by its name; anything else (such as the *)
(* plain string "Consolidation", a member's value) is no MarketPhase.      *)
(* A dict is a function from its keys.                                     *)
(***************************************************************************)
MarketPhase == {"CONSOLIDATION", "MANIPULATION", "DISTRIBUTION", "RETRACEMENT", "UNKNOWN"}
NotAPhase == {"Consolidation", "ACCUMULATION"}

DataKeys == {"range_high", "range_low"}
DataValues == {1, 2}
Dicts == UNION {[ks -> DataValues] : ks \in SUBSET DataKeys}
OptionalDicts == {None} \cup {Some(d) : d \in Dicts}

\* mutant: the dict is replaced by data
DictReplace(d, data) == data

\* dict.update(data)
DictUpdate(d, data) ==
    [k \in DOMAIN d \cup DOMAIN data |-> IF k \in DOMAIN data THEN data[k] ELSE d[k]]

InitSM ==
    /\ utcnow = RunStart
    /\ _current_phase = "UNKNOWN"
    /\ _phase_start_time = RunStart
    /\ _phase_data = <<>>
    /\ sm_call = [op |-> "__init__", args |-> <<>>]
    /\ sm_raised = "none"

\* mutant: no isinstance check
transition_to_unchecked(new_phase, data) ==
    /\ sm_raised' = "none"
    /\ IF _current_phase # new_phase
       THEN /\ _current_phase' = new_phase
            /\ _phase_start_time' = utcnow
            /\ _phase_data' = IF data # None THEN data[1] ELSE <<>>
       ELSE /\ _phase_data' = IF data # None
                              THEN DictUpdate(_phase_data, data[1])
                              ELSE _phase_data
            /\ UNCHANGED <<_current_phase, _phase_start_time>>

\* mutant: the isinstance check comes after the payload was stored
transition_to_check_late(new_phase, data) ==
    /\ sm_raised' = IF new_phase \notin MarketPhase THEN "TypeError" ELSE "none"
    /\ _phase_data' = IF data = None THEN _phase_data
                      ELSE IF _current_phase # new_phase THEN data[1]
                      ELSE DictUpdate(_phase_data, data[1])
    /\ IF new_phase \in MarketPhase /\ _current_phase # new_phase
       THEN /\ _current_phase' = new_phase
            /\ _phase_start_time' = utcnow
       ELSE UNCHANGED <<_current_phase, _phase_start_time>>

\* mutant: a new phase takes data into the payload of the phase before
transition_to_merging(new_phase, data) ==
    IF new_phase \notin MarketPhase
    THEN /\ sm_raised' = "TypeError"
         /\ UNCHANGED <<_current_phase, _phase_start_time, _phase_data>>
    ELSE /\ sm_raised' = "none"
         /\ _phase_data' = IF data # None THEN DictUpdate(_phase_data, data[1])
                           ELSE _phase_data
         /\ IF _current_phase # new_phase
            THEN /\ _current_phase' = new_phase
                 /\ _phase_start_time' = utcnow
            ELSE UNCHANGED <<_current_phase, _phase_start_time>>

\* transition_to: the state machine's fields and the exception raised
transition_to(new_phase, data) ==
    IF new_phase \notin MarketPhase
    THEN /\ sm_raised' = "TypeError"
         /\ UNCHANGED <<_current_phase, _phase_start_time, _phase_data>>
    ELSE /\ sm_raised' = "none"
         /\ IF _current_phase # new_phase
            THEN /\ _current_phase' = new_phase
                 /\ _phase_start_time' = utcnow
                 /\ _phase_data' = IF data # None THEN data[1] ELSE <<>>
            ELSE /\ _phase_data' = IF data # None
                                   THEN DictUpdate(_phase_data, data[1])
                                   ELSE _phase_data
                 /\ UNCHANGED <<_current_phase, _phase_start_time>>

TransitionTo ==
    /\ \E new_phase \in MarketPhase \cup NotAPhase, data \in OptionalDicts :
          /\ transition_to(new_phase, data)
          /\ sm_call' = [op |-> "transition_to", args |-> <<new_phase, data>>]
    /\ UNCHANGED <<utcnow, sniperVars, runVars>>

update_phase_data(key, value) ==
    /\ _phase_data' = DictUpdate(_phase_data, [k \in {key} |-> value])
    /\ sm_raised' = "none"
    /\ UNCHANGED <<_current_phase, _phase_start_time>>

UpdatePhaseData ==
    /\ \E key \in DataKeys, value \in DataValues :
          /\ update_phase_data(key, value)
          /\ sm_call' = [op |-> "update_phase_data", args |-> <<key, value>>]
    /\ UNCHANGED <<utcnow, sniperVars, runVars>>

\* the wall clock moves on between calls
ClockAdvance ==
    /\ \E d \in ClockSteps :
          /\ utcnow + d <= RunStart + MaxClock
          /\ utcnow' = utcnow + d
    /\ UNCHANGED <<_current_phase, _phase_start_time, _phase_data, sm_call, sm_raised,
                   sniperVars, runVars>>

NextSM == TransitionTo \/ UpdatePhaseData \/ ClockAdvance

(***************************************************************************)
(* Bars.  A bar is [time, open, high, low, close]; `time` is the bar's     *)
(* (timezone-naive, UTC) index timestamp in minutes.  A window is a        *)
(* sequence of bars: the bar at pandas position p is window[p + 1].        *)
(***************************************************************************)
Bar(time, ohlc) ==
    [time |-> time, open |-> ohlc[1], high |-> ohlc[2], low |-> ohlc[3], close |-> ohlc[4]]

Abs(x) == IF x < 0 THEN 0 - x ELSE x

RECURSIVE SeqSum(_)
SeqSum(q) == IF q = <<>> THEN 0 ELSE Head(q) + SeqSum(Tail(q))

SetMax(S) == CHOOSE x \in S : \A y \in S : y <= x
SetMin(S) == CHOOSE x \in S : \A y \in S : x <= y

(***************************************************************************)
(* TimeKeeper.  New York time is UTC - 5 h (standard time); a time of day  *)
(* is in minutes after midnight.                                           *)
(***************************************************************************)
MinutesPerDay == 24 * 60
NyUtcOffset == 5 * 60

\* get_current_ny_time: the New York wall time of a naive UTC timestamp
get_current_ny_time(t) == t - NyUtcOffset

TimeOfDay(ny_time) == ny_time % MinutesPerDay
Hour(ny_time) == TimeOfDay(ny_time) \div 60

HM(h, m) == 60 * h + m

KILLZONES ==
    [london_open_am |-> [start |-> HM(2, 0), end |-> HM(5, 0)],
     new_york_am |-> [start |-> HM(8, 30), end |-> HM(11, 0)],
     new_york_pm |-> [start |-> HM(13, 0), end |-> HM(16, 0)],
     silver_bullet |-> [start |-> HM(10, 0), end |-> HM(11, 0)]]

SESSIONS ==
    [asian |-> [start |-> HM(20, 0), end |-> HM(23, 59)],
     london |-> [start |-> HM(2, 0), end |-> HM(5, 0)],
     new_york |-> [start |-> HM(8, 0), end |-> HM(17, 0)]]

\* mutant: the Asian session runs over midnight to the end of London
get_current_session_overnight(ny_time) ==
    LET current_time == TimeOfDay(ny_time)
    IN IF SESSIONS.asian.start <= current_time \/ current_time < SESSIONS.london.end
       THEN "asian"
       ELSE IF SESSIONS.new_york.start <= current_time /\ current_time < SESSIONS.new_york.end
       THEN "new_york"
       ELSE "None"

\* "asian", "london", "new_york", or "None"
get_current_session(ny_time) ==
    LET current_time == TimeOfDay(ny_time)
    IN IF SESSIONS.asian.start <= current_time /\ current_time <= SESSIONS.asian.end
       THEN "asian"
       ELSE IF SESSIONS.london.start <= current_time /\ current_time < SESSIONS.london.end
       THEN "london"
       ELSE IF SESSIONS.new_york.start <= current_time /\ current_time < SESSIONS.new_york.end
       THEN "new_york"
       ELSE "None"

\* the end of a killzone taken as part of it
is_in_killzone_closed(ny_time, killzone_name) ==
    LET current_time == TimeOfDay(ny_time)
    IN IF killzone_name # None
       THEN IF killzone_name[1] \in DOMAIN KILLZONES
            THEN LET kz == KILLZONES[killzone_name[1]]
                 IN kz.start <= current_time /\ current_time <= kz.end
            ELSE FALSE
       ELSE \E kz_name \in DOMAIN KILLZONES :
               KILLZONES[kz_name].start <= current_time
               /\ current_time <= KILLZONES[kz_name].end

\* killzone_name = None: any killzone
is_in_killzone(ny_time, killzone_name) ==
    LET current_time == TimeOfDay(ny_time)
    IN IF killzone_name # None
       THEN IF killzone_name[1] \in DOMAIN KILLZONES
            THEN LET kz == KILLZONES[killzone_name[1]]
                 IN kz.start <= current_time /\ current_time < kz.end
            ELSE FALSE
       ELSE \E kz_name \in DOMAIN KILLZONES :
               KILLZONES[kz_name].start <= current_time
               /\ current_time < KILLZONES[kz_name].end

(***************************************************************************)
(* MarketScanner.  Swing points, order blocks and the like are given by    *)
(* the 1-based index of their bar in the window.                           *)
(***************************************************************************)
SwingStrength == 2
OrderBlockLookback == 20
MssLastN == 5
JudasLookback == 10

Body(candle) == Abs(candle.close - candle.open)

\* body > 1.5 * avg_body_size, with avg_body_size = body_sum / count
is_displacement(candle, body_sum, count) ==
    2 * count * Body(candle) > 3 * body_sum

\* a bar that only equals a neighbour is no swing point
find_swing_points_strict(ohlc_data, n) ==
    LET len == Len(ohlc_data)
        inner == IF len < 2 * n + 1 THEN {} ELSE (n + 1)..(len - n)
    IN [highs |-> {idx \in inner : \A j \in 1..n :
                     ~(ohlc_data[idx].high <= ohlc_data[idx - j].high
                       \/ ohlc_data[idx].high <= ohlc_data[idx + j].high)},
        lows |-> {idx \in inner : \A j \in 1..n :
                     ~(ohlc_data[idx].low >= ohlc_data[idx - j].low
                       \/ ohlc_data[idx].low >= ohlc_data[idx + j].low)}]

\* [highs, lows]: the indices of the swing highs and of the swing lows
find_swing_points(ohlc_data, n) ==
    LET len == Len(ohlc_data)
        inner == IF len < 2 * n + 1 THEN {} ELSE (n + 1)..(len - n)
    IN [highs |-> {idx \in inner : \A j \in 1..n :
                     ~(ohlc_data[idx].high < ohlc_data[idx - j].high
                       \/ ohlc_data[idx].high < ohlc_data[idx + j].high)},
        lows |-> {idx \in inner : \A j \in 1..n :
                     ~(ohlc_data[idx].low > ohlc_data[idx - j].low
                       \/ ohlc_data[idx].low > ohlc_data[idx + j].low)}]

\* the gap taken between the row before and the row itself
RECURSIVE FairValueGapsFromCurr(_, _, _)
FairValueGapsFromCurr(ohlc_data, idx, acc) ==
    IF idx >= Len(ohlc_data) THEN acc
    ELSE LET prev_high == ohlc_data[idx - 1].high
             prev_low == ohlc_data[idx - 1].low
             gap == IF prev_high < ohlc_data[idx].low
                    THEN <<[timestamp |-> ohlc_data[idx].time, top |-> ohlc_data[idx].low,
                            bottom |-> prev_high, is_bullish |-> TRUE]>>
                    ELSE IF prev_low > ohlc_data[idx].high
                    THEN <<[timestamp |-> ohlc_data[idx].time, top |-> prev_low,
                            bottom |-> ohlc_data[idx].high, is_bullish |-> FALSE]>>
                    ELSE <<>>
         IN FairValueGapsFromCurr(ohlc_data, idx + 1, acc \o gap)

\* the gaps found at the rows idx..Len(ohlc_data) - 1, appended to acc: a row
\* is compared with the row before it (prev_high, prev_low) and the row
\* after it (next_high, next_low); rows are in the order of their timestamps
RECURSIVE FairValueGapsFrom(_, _, _)
FairValueGapsFrom(ohlc_data, idx, acc) ==
    IF idx >= Len(ohlc_data) THEN acc
    ELSE LET prev_high == ohlc_data[idx - 1].high
             prev_low == ohlc_data[idx - 1].low
             next_high == ohlc_data[idx + 1].high
             next_low == ohlc_data[idx + 1].low
             gap == IF prev_high < next_low
                    THEN <<[timestamp |-> ohlc_data[idx].time, top |-> next_low,
                            bottom |-> prev_high, is_bullish |-> TRUE]>>
                    ELSE IF prev_low > next_high
                    THEN <<[timestamp |-> ohlc_data[idx].time, top |-> prev_low,
                            bottom |-> next_high, is_bullish |-> FALSE]>>
                    ELSE <<>>
         IN FairValueGapsFrom(ohlc_data, idx + 1, acc \o gap)

\* the list of [timestamp, top, bottom, is_bullish], sorted by timestamp
find_fair_value_gaps(ohlc_data) ==
    IF Len(ohlc_data) < 3 THEN <<>>
    ELSE FairValueGapsFrom(ohlc_data, 2, <<>>)

\* the order blocks, as [index, is_bullish] in the order they are appended;
\* index is the bar before the displacement bar
RECURSIVE OrderBlocksFrom(_, _, _, _)
OrderBlocksFrom(ohlc_data, idx, lookback, acc) ==
    IF idx > Len(ohlc_data) THEN acc
    ELSE LET candle == ohlc_data[idx]
             prev_candle == ohlc_data[idx - 1]
             body_sum == SeqSum([k \in 1..lookback |-> Body(ohlc_data[idx - lookback + k])])
             ob == IF is_displacement(candle, body_sum, lookback)
                   THEN IF candle.close > candle.open /\ prev_candle.close < prev_candle.open
                        THEN <<[index |-> idx - 1, is_bullish |-> TRUE]>>
                        ELSE IF candle.close < candle.open /\ prev_candle.close > prev_candle.open
                        THEN <<[index |-> idx - 1, is_bullish |-> FALSE]>>
                        ELSE <<>>
                   ELSE <<>>
         IN OrderBlocksFrom(ohlc_data, idx + 1, lookback, acc \o ob)

\* find_order_blocks(ohlc_data, lookback): the loop starts at the 0-based
\* position lookback, the bar number lookback + 1
find_order_blocks_lookback(ohlc_data, lookback) ==
    IF Len(ohlc_data) < lookback THEN <<>>
    ELSE OrderBlocksFrom(ohlc_data, lookback + 1, lookback, <<>>)

\* find_order_blocks(ohlc_data) with the default lookback
find_order_blocks(ohlc_data) == find_order_blocks_lookback(ohlc_data, OrderBlockLookback)

\* only the close of the last bar can break a swing point
BrokenSwingsByLastClose(ohlc_data, swing_points, last_n_candles, is_high) ==
    LET len == Len(ohlc_data)
        first == IF len > last_n_candles THEN len - last_n_candles + 1 ELSE 1
    IN IF is_high
       THEN {h \in swing_points.highs :
               /\ ohlc_data[h].time < ohlc_data[first].time
               /\ ohlc_data[len].close > ohlc_data[h].high}
       ELSE {l \in swing_points.lows :
               /\ ohlc_data[l].time < ohlc_data[first].time
               /\ ohlc_data[len].close < ohlc_data[l].low}

\* the swing highs (is_high) or lows of swing_points that lie before the
\* last last_n_candles bars and that the close of one of those bars is beyond
BrokenSwings(ohlc_data, swing_points, last_n_candles, is_high) ==
    LET len == Len(ohlc_data)
        first == IF len > last_n_candles THEN len - last_n_candles + 1 ELSE 1
        recent == first..len
    IN IF is_high
       THEN {h \in swing_points.highs :
               /\ ohlc_data[h].time < ohlc_data[first].time
               /\ \E c \in recent : ohlc_data[c].close > ohlc_data[h].high}
       ELSE {l \in swing_points.lows :
               /\ ohlc_data[l].time < ohlc_data[first].time
               /\ \E c \in recent : ohlc_data[c].close < ohlc_data[l].low}

\* the loop over the swing lows put before the loop over the swing highs
find_market_structure_shift_lows_first(ohlc_data, swing_points, last_n_candles) ==
    IF ohlc_data = <<>> \/ (swing_points.highs = {} /\ swing_points.lows = {})
    THEN None
    ELSE LET brokenHighs == BrokenSwings(ohlc_data, swing_points, last_n_candles, TRUE)
             brokenLows == BrokenSwings(ohlc_data, swing_points, last_n_candles, FALSE)
         IN IF brokenLows # {}
            THEN Some([type |-> "bearish", swing_index |-> SetMin(brokenLows)])
            ELSE IF brokenHighs # {}
            THEN Some([type |-> "bullish", swing_index |-> SetMin(brokenHighs)])
            ELSE None

\* [type, swing_index] of the first broken swing point, or None: the swing
\* highs are gone through first, then the swing lows
find_market_structure_shift_last_n(ohlc_data, swing_points, last_n_candles) ==
    IF ohlc_data = <<>> \/ (swing_points.highs = {} /\ swing_points.lows = {})
    THEN None
    ELSE LET brokenHighs == BrokenSwings(ohlc_data, swing_points, last_n_candles, TRUE)
             brokenLows == BrokenSwings(ohlc_data, swing_points, last_n_candles, FALSE)
         IN IF brokenHighs # {}
            THEN Some([type |-> "bullish", swing_index |-> SetMin(brokenHighs)])
            ELSE IF brokenLows # {}
            THEN Some([type |-> "bearish", swing_index |-> SetMin(brokenLows)])
            ELSE None

\* find_market_structure_shift(ohlc_data, swing_points) with the default
\* last_n_candles
find_market_structure_shift(ohlc_data, swing_points) ==
    find_market_structure_shift_last_n(ohlc_data, swing_points, MssLastN)

\* [high, low] over the bars whose New York time of day is in
\* [start_time, end_time] (between_time includes both ends), or None
get_session_range(ohlc_data, start_time, end_time) ==
    LET session_data == {idx \in DOMAIN ohlc_data :
                            LET tod == TimeOfDay(get_current_ny_time(ohlc_data[idx].time))
                            IN start_time <= tod /\ tod <= end_time}
    IN IF session_data = {} THEN None
       ELSE Some([high |-> SetMax({ohlc_data[idx].high : idx \in session_data}),
                  low |-> SetMin({ohlc_data[idx].low : idx \in session_data})])

\* [top100, bottom100, direction]: the zone's bounds times 100, or None
find_optimal_trade_entry_zone(ohlc_data, swing_points) ==
    IF swing_points.highs = {} \/ swing_points.lows = {}
    THEN None
    ELSE LET last_swing_high == ohlc_data[SetMax(swing_points.highs)]
             last_swing_low == ohlc_data[SetMax(swing_points.lows)]
             bullish == last_swing_high.time > last_swing_low.time
             leg_start_price == IF bullish THEN last_swing_low.low ELSE last_swing_high.high
             leg_end_price == IF bullish THEN last_swing_high.high ELSE last_swing_low.low
             leg_range == Abs(leg_end_price - leg_start_price)
         IN IF bullish
            THEN Some([top100 |-> 100 * leg_end_price - 62 * leg_range,
                       bottom100 |-> 100 * leg_end_price - 79 * leg_range,
                       direction |-> "bullish"])
            ELSE Some([top100 |-> 100 * leg_end_price + 79 * leg_range,
                       bottom100 |-> 100 * leg_end_price + 62 * leg_range,
                       direction |-> "bearish"])

\* the guard on the length of the window left out: the bars that exist
\* among the last lookback_candles are looked at
find_judas_swing_unguarded(ohlc_data, asian_range_high, asian_range_low, lookback_candles) ==
    LET len == Len(ohlc_data)
        first == IF len > lookback_candles THEN len - lookback_candles + 1 ELSE 1
        bearish(idx) == ohlc_data[idx].high > asian_range_high
                      /\ ohlc_data[idx].close < asian_range_high
        bullish(idx) == ohlc_data[idx].low < asian_range_low
                      /\ ohlc_data[idx].close > asian_range_low
        found == {idx \in first..len : bearish(idx) \/ bullish(idx)}
    IN IF found = {} THEN None
       ELSE LET idx == SetMax(found)
            IN Some([type |-> IF bearish(idx) THEN "bearish" ELSE "bullish", index |-> idx])

\* the most recent of the last lookback_candles bars that swept the Asian
\* high or low and closed back inside: [type, index], or None
find_judas_swing_lookback(ohlc_data, asian_range_high, asian_range_low, lookback_candles) ==
    IF Len(ohlc_data) < lookback_candles THEN None
    ELSE LET len == Len(ohlc_data)
             bearish(idx) == ohlc_data[idx].high > asian_range_high
                           /\ ohlc_data[idx].close < asian_range_high
             bullish(idx) == ohlc_data[idx].low < asian_range_low
                           /\ ohlc_data[idx].close > asian_range_low
             found == {idx \in (len - lookback_candles + 1)..len : bearish(idx) \/ bullish(idx)}
         IN IF found = {} THEN None
            ELSE LET idx == SetMax(found)
                 IN Some([type |-> IF bearish(idx) THEN "bearish" ELSE "bullish", index |-> idx])

\* find_judas_swing(ohlc_data, high, low) with the default lookback_candles
find_judas_swing(ohlc_data, asian_range_high, asian_range_low) ==
    find_judas_swing_lookback(ohlc_data, asian_range_high, asian_range_low, JudasLookback)

(***************************************************************************)
(* RiskWarden, as BacktestBot builds it: account_balance = the ledger's    *)
(* starting balance, mt5_connection_active = True, the default percentages.*)
(***************************************************************************)
MaxDailyLossPct == 2
MaxDrawdownPct == 10
DefaultRiskPerTradePct == 1

\* mt5.symbol_info(symbol): the broker's contract data for EURUSD in the
\* model's units (a tick is 0.1 pip and worth $1 per lot; volumes go in
\* steps of 0.01 lot from 0.01 to 100 lots), or None for an unknown symbol
SymbolInfo ==
    [trade_tick_value |-> 100, ticks_per_pip |-> 10,
     volume_step |-> 1, volume_min |-> 1, volume_max |-> 100 * 100]
SymbolInfos == {None, Some(SymbolInfo)}

can_trade ==
    /\ ~(100 * today_pnl <= 0 - MaxDailyLossPct * InitialBalance)
    /\ ~(100 * (high_water_mark - current_balance) >= MaxDrawdownPct * InitialBalance)

\* the lot size (hundredths of a lot) as Some(volume), or None;
\* balance_now is current_balance at the time of the call
\* mutant: the size is computed without asking can_trade
calculate_position_size_ungated(entry_price, stop_loss_price, symbol_info, balance_now, allowed) ==
    LET sl_pips == Abs(entry_price - stop_loss_price)
    IN IF sl_pips = 0 \/ symbol_info = None THEN None
       ELSE LET info == symbol_info[1]
                lot_size == ((balance_now * DefaultRiskPerTradePct)
                                \div (sl_pips * info.ticks_per_pip * info.trade_tick_value
                                        * info.volume_step)) * info.volume_step
            IN IF lot_size < info.volume_min THEN None
               ELSE IF lot_size > info.volume_max THEN Some(info.volume_max)
               ELSE Some(lot_size)

calculate_position_size(entry_price, stop_loss_price, symbol_info, balance_now, allowed) ==
    IF ~allowed THEN None
    ELSE LET sl_pips == Abs(entry_price - stop_loss_price)
         IN IF sl_pips = 0 THEN None
            ELSE IF symbol_info = None THEN None
            ELSE LET info == symbol_info[1]
                     sl_value_per_lot == sl_pips * info.ticks_per_pip * info.trade_tick_value
                     \* risk_amount / sl_value_per_lot, rounded down to the volume step
                     steps == (balance_now * DefaultRiskPerTradePct)
                                  \div (sl_value_per_lot * info.volume_step)
                     lot_size == steps * info.volume_step
                 IN IF info.trade_tick_value = 0 \/ sl_value_per_lot = 0 THEN None
                    ELSE IF lot_size < info.volume_min THEN None
                    ELSE IF lot_size > info.volume_max THEN Some(info.volume_max)
                    ELSE Some(lot_size)

(***************************************************************************)
(* NewsFilter with its mock events, each at an offset from the fetch.      *)
(***************************************************************************)
CacheDurationMinutes == 60
LookaheadMinutes == 20
MockEvents ==
    <<[offset |-> 15, currency |-> "USD", impact |-> "Red"],
      [offset |-> 45, currency |-> "EUR", impact |-> "Orange"],
      [offset |-> 120, currency |-> "GBP", impact |-> "Red"],
      [offset |-> 0 - 30, currency |-> "JPY", impact |-> "Red"]>>
relevant_currencies == {"EUR", "USD"}

_should_refetch ==
    \/ last_fetch_time = None
    \/ utcnow - last_fetch_time[1] > CacheDurationMinutes

\* last_fetch_time after fetch_upcoming_events
FetchTime == IF _should_refetch THEN utcnow ELSE last_fetch_time[1]

\* is_high_impact_news_approaching(relevant_currencies) returns an event
is_news_approaching ==
    \E k \in DOMAIN MockEvents :
        LET event == MockEvents[k]
            timestamp == FetchTime + event.offset
        IN /\ event.impact = "Red"
           /\ event.currency \in relevant_currencies
           /\ utcnow < timestamp /\ timestamp <= utcnow + LookaheadMinutes

(***************************************************************************)
(* BacktestBot.  A handler is described by its outcome on the view:        *)
(*   news    whether is_news_approaching() was called (a fetch may happen) *)
(*   range   the new asian_range                                           *)
(*   traded  the timestamps added to recently_traded_timestamps            *)
(*   asked   whether calculate_position_size was called                    *)
(*   signal  Some(<<type, lot, price, sl, tp>>) when open_trade is called  *)
(***************************************************************************)
NoTrade(news) == [news |-> news, traded |-> {}, asked |-> FALSE, signal |-> None]

\* mutant: the stop is put at the candle's range beyond the entry
stop_loss_beyond_entry(is_bullish, ob) ==
    IF is_bullish THEN ob.high + (ob.high - ob.low) ELSE ob.low - (ob.high - ob.low)

\* the stop of a trade on the order block ob: the far side of the candle
stop_loss_of(is_bullish, ob) == IF is_bullish THEN ob.low ELSE ob.high

\* mutant: an order block is traded however often it comes up
find_and_execute_trade_again(ohlc_data, trade_direction, symbol_info) ==
    LET order_blocks == find_order_blocks(ohlc_data)
        latest_ob == order_blocks[Len(order_blocks)]
        ob == ohlc_data[latest_ob.index]
        ote_zone == find_optimal_trade_entry_zone(ohlc_data,
                        find_swing_points(ohlc_data, SwingStrength))
        entry_price == IF latest_ob.is_bullish THEN ob.high ELSE ob.low
        stop_loss == stop_loss_of(latest_ob.is_bullish, ob)
        take_profit == IF latest_ob.is_bullish
                       THEN entry_price + 2 * (entry_price - stop_loss)
                       ELSE entry_price - 2 * (stop_loss - entry_price)
        lot_size == calculate_position_size(entry_price, stop_loss, symbol_info,
                                            balance, can_trade')
    IN IF order_blocks = <<>> THEN NoTrade(TRUE)
       ELSE IF (trade_direction = "bullish" /\ ~latest_ob.is_bullish)
               \/ (trade_direction = "bearish" /\ latest_ob.is_bullish)
       THEN NoTrade(TRUE)
       ELSE IF ote_zone = None \/ ote_zone[1].direction # trade_direction THEN NoTrade(TRUE)
       ELSE IF ~(ote_zone[1].bottom100 <= 100 * entry_price
                 /\ 100 * entry_price <= ote_zone[1].top100)
       THEN [news |-> TRUE, traded |-> {ob.time}, asked |-> FALSE, signal |-> None]
       ELSE [news |-> TRUE, traded |-> {ob.time}, asked |-> TRUE,
             signal |-> IF lot_size # None /\ lot_size # Some(0)
                        THEN Some(<<trade_direction, lot_size[1], entry_price,
                                    stop_loss, take_profit>>)
                        ELSE None]

find_and_execute_trade(ohlc_data, trade_direction, symbol_info) ==
    LET order_blocks == find_order_blocks(ohlc_data)
        latest_ob == order_blocks[Len(order_blocks)]
        ob == ohlc_data[latest_ob.index]
        ote_zone == find_optimal_trade_entry_zone(ohlc_data,
                        find_swing_points(ohlc_data, SwingStrength))
        entry_price == IF latest_ob.is_bullish THEN ob.high ELSE ob.low
        stop_loss == stop_loss_of(latest_ob.is_bullish, ob)
        take_profit == IF latest_ob.is_bullish
                       THEN entry_price + 2 * (entry_price - stop_loss)
                       ELSE entry_price - 2 * (stop_loss - entry_price)
        lot_size == calculate_position_size(entry_price, stop_loss, symbol_info,
                                            balance, can_trade')
    IN IF order_blocks = <<>> THEN NoTrade(TRUE)
       ELSE IF (trade_direction = "bullish" /\ ~latest_ob.is_bullish)
               \/ (trade_direction = "bearish" /\ latest_ob.is_bullish)
       THEN NoTrade(TRUE)
       ELSE IF ob.time \in recently_traded_timestamps THEN NoTrade(TRUE)
       ELSE IF ote_zone = None \/ ote_zone[1].direction # trade_direction THEN NoTrade(TRUE)
       ELSE IF ~(ote_zone[1].bottom100 <= 100 * entry_price
                 /\ 100 * entry_price <= ote_zone[1].top100)
       THEN [news |-> TRUE, traded |-> {ob.time}, asked |-> FALSE, signal |-> None]
       ELSE [news |-> TRUE, traded |-> {ob.time}, asked |-> TRUE,
             signal |-> IF lot_size # None /\ lot_size # Some(0)
                        THEN Some(<<trade_direction, lot_size[1], entry_price,
                                    stop_loss, take_profit>>)
                        ELSE None]

\* mutant: the London handler goes on without an Asian range
handle_london_session_without_range(ohlc_data, ny_time, symbol_info) ==
    IF ~is_in_killzone(ny_time, Some("london_open_am")) THEN NoTrade(FALSE)
    ELSE IF is_news_approaching \/ asian_range = None THEN NoTrade(TRUE)
    ELSE LET judas_swing == find_judas_swing(ohlc_data, asian_range[1].high, asian_range[1].low)
             mss == find_market_structure_shift(ohlc_data,
                        find_swing_points(ohlc_data, SwingStrength))
         IN IF judas_swing # None /\ mss # None /\ judas_swing[1].type = mss[1].type
            THEN find_and_execute_trade(ohlc_data, judas_swing[1].type, symbol_info)
            ELSE NoTrade(TRUE)

handle_london_session(ohlc_data, ny_time, symbol_info) ==
    IF asian_range = None THEN NoTrade(FALSE)
    ELSE IF ~is_in_killzone(ny_time, Some("london_open_am")) THEN NoTrade(FALSE)
    ELSE IF is_news_approaching THEN NoTrade(TRUE)
    ELSE LET judas_swing == find_judas_swing(ohlc_data, asian_range[1].high, asian_range[1].low)
             mss == find_market_structure_shift(ohlc_data,
                        find_swing_points(ohlc_data, SwingStrength))
         IN IF judas_swing # None /\ mss # None /\ judas_swing[1].type = mss[1].type
            THEN find_and_execute_trade(ohlc_data, judas_swing[1].type, symbol_info)
            ELSE NoTrade(TRUE)

\* mutant: the New York handler does not ask for a killzone
handle_new_york_session_any_time(ohlc_data, ny_time, symbol_info) ==
    IF is_news_approaching THEN NoTrade(TRUE)
    ELSE LET mss == find_market_structure_shift(ohlc_data,
                        find_swing_points(ohlc_data, SwingStrength))
         IN IF mss # None
            THEN find_and_execute_trade(ohlc_data, mss[1].type, symbol_info)
            ELSE NoTrade(TRUE)

handle_new_york_session(ohlc_data, ny_time, symbol_info) ==
    IF ~is_in_killzone(ny_time, None) THEN NoTrade(FALSE)
    ELSE IF is_news_approaching THEN NoTrade(TRUE)
    ELSE LET mss == find_market_structure_shift(ohlc_data,
                        find_swing_points(ohlc_data, SwingStrength))
         IN IF mss # None
            THEN find_and_execute_trade(ohlc_data, mss[1].type, symbol_info)
            ELSE NoTrade(TRUE)

\* BacktestBot.tick on the view ohlc_data
tick(ohlc_data, symbol_info) ==
    LET current_time_utc == ohlc_data[Len(ohlc_data)].time
        ny_time == get_current_ny_time(current_time_utc)
        current_session == get_current_session(ny_time)
        out == IF current_session = "london"
               THEN handle_london_session(ohlc_data, ny_time, symbol_info)
               ELSE IF current_session = "new_york"
               THEN handle_new_york_session(ohlc_data, ny_time, symbol_info)
               ELSE NoTrade(FALSE)
    IN /\ current_balance' = balance
       /\ UNCHANGED <<today_pnl, high_water_mark>>
       /\ IF current_session = "asian"
          THEN /\ transition_to("CONSOLIDATION", None)
               /\ sm_call' = [op |-> "transition_to", args |-> <<"CONSOLIDATION", None>>]
               /\ asian_range' = get_session_range(ohlc_data, SESSIONS.asian.start,
                                                   SESSIONS.asian.end)
          ELSE /\ UNCHANGED <<_current_phase, _phase_start_time, _phase_data,
                              sm_call, sm_raised>>
               /\ asian_range' = IF current_session = "None" /\ Hour(ny_time) > 17
                                 THEN None ELSE asian_range
       /\ last_fetch_time' = IF out.news THEN Some(FetchTime) ELSE last_fetch_time
       /\ recently_traded_timestamps' = recently_traded_timestamps \cup out.traded
       /\ IF out.signal # None
          THEN LET sig == out.signal[1]
               IN /\ OpenTradeEffect(sig[1], sig[2], sig[3], sig[4], sig[5])
                  /\ last_call' = [op |-> "open_trade", args |-> <<_next_ticket>>]
                  /\ raised' = "none"
          ELSE UNCHANGED sniperVars
       /\ last_tick' = [time |-> current_time_utc, session |-> current_session,
                        news |-> out.news /\ is_news_approaching,
                        asked |-> out.asked, allowed |-> can_trade',
                        opened |-> IF out.signal # None THEN _next_ticket ELSE 0]
       /\ UNCHANGED utcnow

(***************************************************************************)
(* Backtester.run.  historical_data is what get_bars returned; the loop    *)
(* body is update_and_check_positions on bar i, then bot.tick on the bars  *)
(* before it.  An exception leaves run.                                    *)
(***************************************************************************)
RunStartIndex == 20

current_view == SubSeq(historical_data, 1, i)
current_candle == historical_data[i + 1]

RunUpdate ==
    /\ run_pc = "update"
    /\ UpdateAndCheckPositions(current_candle.high, current_candle.low, current_candle.time)
    /\ run_pc' = IF raised' = "none" THEN "tick" ELSE "aborted"
    /\ UNCHANGED <<smVars, historical_data, i, botVars, scan, data_stream>>

RunTick ==
    /\ run_pc = "tick"
    /\ \E symbol_info \in SymbolInfos : tick(current_view, symbol_info)
    /\ i' = i + 1
    /\ run_pc' = IF i + 1 < Len(historical_data) THEN "update" ELSE "finished"
    /\ UNCHANGED <<historical_data, scan, data_stream>>

NextRun == RunUpdate \/ RunTick \/ ClockAdvance

(***************************************************************************)
(* Histories.  Bars are four hours apart and fall on the even hours of     *)
(* New York time: 02:00, 06:00, ... , 22:00 or 00:00, 04:00, ... , 20:00.  *)
(* The first 20 bars are a flat stretch at 100, a rally to 200 and a       *)
(* pull-back whose last bar is a down candle in the 62%-79% retracement of *)
(* the rally; the bars after them are drawn from RunShapes.  Mirrored, the *)
(* same history falls.                                                     *)
(***************************************************************************)
BarMinutes == 4 * 60
StartTimes == {HM(7, 0) + (BarMinutes \div 2) * a : a \in 0..11}

WarmUpShapes ==
    [k \in 1..13 |-> <<100, 100, 100, 100>>] \o
    << <<100, 150, 100, 150>>, <<150, 180, 140, 180>>, <<180, 200, 170, 190>>,
       <<190, 190, 150, 160>>, <<160, 170, 135, 140>>, <<140, 150, 125, 135>>,
       <<130, 130, 120, 120>> >>

\* a displacement up, a bar inside (120, 150), a fall to 110, a rise to 160
RunShapes ==
    { <<120, 165, 118, 165>>, <<140, 145, 135, 140>>,
      <<140, 145, 110, 115>>, <<140, 160, 135, 155>> }

\* <<open, high, low, close>> reflected at the price 150
MirrorShape(ohlc) == <<300 - ohlc[1], 300 - ohlc[3], 300 - ohlc[2], 300 - ohlc[4]>>

Histories ==
    {[k \in 1..(Len(WarmUpShapes) + MaxRunBars) |->
         LET shape == IF k <= Len(WarmUpShapes)
                      THEN WarmUpShapes[k]
                      ELSE run[k - Len(WarmUpShapes)]
         IN Bar(t0 + BarMinutes * (k - 1), IF mirror THEN MirrorShape(shape) ELSE shape)] :
       t0 \in StartTimes, mirror \in BOOLEAN, run \in [1..MaxRunBars -> RunShapes]}

InitBot ==
    /\ asian_range = None
    /\ recently_traded_timestamps = {}
    /\ current_balance = InitialBalance
    /\ today_pnl = 0
    /\ high_water_mark = InitialBalance
    /\ last_fetch_time = None
    /\ last_tick = [time |-> 0, session |-> "None", news |-> FALSE, asked |-> FALSE,
                    allowed |-> TRUE, opened |-> 0]

\* no backtest is running
InitIdle ==
    /\ historical_data = <<>>
    /\ i = 0
    /\ run_pc = "idle"
    /\ InitBot

InitRun ==
    /\ historical_data \in Histories
    /\ i = RunStartIndex
    /\ run_pc = IF RunStartIndex < Len(historical_data) THEN "update" ELSE "finished"
    /\ InitBot

(***************************************************************************)
(* BacktestDataStream                                                      *)
(* historical_data is a sequence of bars; current_index counts from 0 as   *)
(* in the code, so the bar at the cursor is historical_data[index + 1].    *)
(***************************************************************************)
Max(a, b) == IF a >= b THEN a ELSE b

BacktestDataStream(stream_data) ==
    [historical_data |-> stream_data, current_index |-> 0, is_connected |-> FALSE]

\* mutant: the window reaches one bar past the cursor
get_latest_candles_ahead(stream, count) ==
    IF stream.current_index < Len(stream.historical_data)
    THEN LET start_index == Max(0, stream.current_index - count + 1)
             stop == IF stream.current_index + 2 <= Len(stream.historical_data)
                     THEN stream.current_index + 2 ELSE Len(stream.historical_data)
         IN SubSeq(stream.historical_data, start_index + 1, stop)
    ELSE <<>>

\* historical_data.iloc[start_index:current_index + 1], or an empty frame
get_latest_candles(stream, count) ==
    IF stream.current_index < Len(stream.historical_data)
    THEN LET start_index == Max(0, stream.current_index - count + 1)
         IN SubSeq(stream.historical_data, start_index + 1, stream.current_index + 1)
    ELSE <<>>

\* mutant: the cursor moves on at the end too
advance_unguarded(stream) ==
    [stream EXCEPT !.current_index = stream.current_index + 1]

\* the stream after advance()
advance(stream) ==
    IF stream.current_index < Len(stream.historical_data)
    THEN [stream EXCEPT !.current_index = stream.current_index + 1]
    ELSE stream

is_finished(stream) == stream.current_index >= Len(stream.historical_data)

\* no stream is replayed: one over no bars
InitNoStream == data_stream = BacktestDataStream(<<>>)

Init == InitSniper /\ InitSM /\ InitIdle /\ scan = NotScanned(<<>>) /\ InitNoStream

\* a backtest has been constructed and run has fetched its bars
InitBacktest ==
    InitSniper /\ InitSM /\ InitRun /\ scan = NotScanned(<<>>) /\ InitNoStream

SpecRun == InitBacktest /\ [][NextRun]_vars

(***************************************************************************)
(* The objects of a backtest under calls from outside the run loop: the    *)
(* ledger's open_trade and close_trade and the warden's update_pnl are     *)
(* public and may be called between the steps of run.                      *)
(***************************************************************************)
\* update_pnl moves today_pnl within MaxPnlPct percent of the initial balance
MaxPnlPct == 2
\* a loss of the daily limit and a gain of one percent of the initial balance
PnlInputs == {0 - (MaxDailyLossPct * InitialBalance) \div 100, InitialBalance \div 100}

update_pnl(pnl) ==
    /\ today_pnl' = today_pnl + pnl
    /\ current_balance' = current_balance + pnl
    /\ high_water_mark' = IF current_balance + pnl > high_water_mark
                          THEN current_balance + pnl ELSE high_water_mark

WardenUpdatePnl ==
    /\ run_pc = "tick"
    /\ \E pnl \in PnlInputs :
          /\ 100 * Abs(today_pnl + pnl) <= MaxPnlPct * InitialBalance
          /\ update_pnl(pnl)
    /\ UNCHANGED <<sniperVars, smVars, historical_data, i, run_pc, asian_range,
                   recently_traded_timestamps, last_fetch_time, last_tick, scan,
                   data_stream>>

\* open_trade from outside: a long of 20 lots on the last order block of the
\* warm-up bars, whose stop costs 2% of the initial balance
DeskSignals == {<<"buy", 20 * 100, 130, 120, 150>>}
\* close_trade from outside closes at the stop of that long
DeskClosePrices == {120}

\* calls from outside come between update_and_check_positions and tick
DeskOpenTrade ==
    /\ run_pc = "tick"
    /\ \E s \in DeskSignals : OpenTrade(s[1], s[2], s[3], s[4], s[5])
    /\ UNCHANGED <<smVars, runVars>>

\* close_trade from outside, at the time of the latest bar of the view
DeskCloseTrade ==
    /\ run_pc = "tick"
    /\ \E t \in DOMAIN open_positions, p \in DeskClosePrices :
          CloseTrade(t, p, current_view[Len(current_view)].time)
    /\ UNCHANGED <<smVars, runVars>>

NextDesk ==
    RunUpdate \/ RunTick \/ ClockAdvance \/ WardenUpdatePnl \/ DeskOpenTrade \/ DeskCloseTrade

\* the rising history whose 20th bar is at 10:00 New York time and whose
\* later bars are the displacement up and then falls to 110
DeskHistories ==
    {h \in Histories :
        /\ h[1].time = HM(11, 0) /\ h[1].open = 100
        /\ h[Len(WarmUpShapes) + 1].close = 165
        /\ \A k \in (Len(WarmUpShapes) + 2)..Len(h) : h[k].close = 115}

InitDesk ==
    /\ InitSniper /\ InitSM /\ InitBot
    /\ historical_data \in DeskHistories
    /\ i = RunStartIndex
    /\ run_pc = IF RunStartIndex < Len(historical_data) THEN "update" ELSE "finished"
    /\ scan = NotScanned(<<>>)
    /\ InitNoStream

SpecDesk == InitDesk /\ [][NextDesk]_vars

(***************************************************************************)
(* BacktestBot.find_and_execute_trade called on its own, time after time,  *)
(* on views of the histories that begin at 06:00 New York time and repeat  *)
(* one bar after the warm-up: the first 21 bars and more.                  *)
(***************************************************************************)
HuntViews ==
    {SubSeq(h, 1, k) : h \in {g \in Histories :
                                 /\ g[1].time = HM(11, 0)
                                 /\ \A n \in (Len(WarmUpShapes) + 2)..Len(g) :
                                       g[n].close = g[Len(WarmUpShapes) + 1].close},
                       k \in (Len(WarmUpShapes) + 1)..(Len(WarmUpShapes) + MaxRunBars)}

BotFindAndExecuteTrade ==
    /\ _next_ticket <= MaxTickets
    /\ UNCHANGED <<smVars, historical_data, i, run_pc, asian_range, current_balance,
                   today_pnl, high_water_mark, last_fetch_time, last_tick, data_stream>>
    /\ \E ohlc_data \in HuntViews, trade_direction \in {"bullish", "bearish"},
          symbol_info \in SymbolInfos :
          LET out == find_and_execute_trade(ohlc_data, trade_direction, symbol_info)
          IN /\ recently_traded_timestamps' = recently_traded_timestamps \cup out.traded
             /\ IF out.signal # None
                THEN LET sig == out.signal[1]
                     IN /\ OpenTradeEffect(sig[1], sig[2], sig[3], sig[4], sig[5])
                        /\ last_call' = [op |-> "open_trade", args |-> <<_next_ticket>>]
                        /\ raised' = "none"
                ELSE UNCHANGED sniperVars
             /\ scan' = [op |-> "find_and_execute_trade", window |-> ohlc_data,
                         args |-> <<trade_direction, symbol_info>>,
                         result |-> Some(out), raised |-> "none"]

SpecHunt == InitDesk /\ [][BotFindAndExecuteTrade]_vars

(***************************************************************************)
(* A BacktestDataStream over the first bars of a history, stepped and read *)
(* while Backtester.run replays its own bars.                              *)
(***************************************************************************)
MaxStreamLen == 3
StreamHistories == {SubSeq(h, 1, n) : h \in DeskHistories, n \in 0..MaxStreamLen}
StreamCounts == 0..(MaxStreamLen + 1)

StreamCalled(op, args, result) ==
    /\ scan' = [op |-> op, window |-> data_stream.historical_data, args |-> args,
                result |-> result, raised |-> "none"]
    /\ UNCHANGED <<sniperVars, smVars, historical_data, i, run_pc, botVars>>

StreamAdvance ==
    /\ data_stream' = advance(data_stream)
    /\ StreamCalled("advance", <<>>, None)

StreamGetLatestCandles ==
    /\ \E count \in StreamCounts :
          StreamCalled("get_latest_candles", <<count>>,
                       get_latest_candles(data_stream, count))
    /\ UNCHANGED data_stream

StreamIsFinished ==
    /\ StreamCalled("is_finished", <<>>, Some(is_finished(data_stream)))
    /\ UNCHANGED data_stream

NextStream == StreamAdvance \/ StreamGetLatestCandles \/ StreamIsFinished
              \/ RunUpdate \/ RunTick

InitStream ==
    /\ InitSniper /\ InitSM /\ InitBot
    /\ historical_data \in DeskHistories
    /\ i = RunStartIndex
    /\ run_pc = IF RunStartIndex < Len(historical_data) THEN "update" ELSE "finished"
    /\ scan = NotScanned(<<>>)
    /\ data_stream \in {BacktestDataStream(stream_data) : stream_data \in StreamHistories}

SpecStream == InitStream /\ [][NextStream]_vars

\* close_trade from outside at the target of the long of DeskSignals
DeskTargetPrices == {150}

DeskTakeProfit ==
    /\ run_pc = "tick"
    /\ \E t \in DOMAIN open_positions, p \in DeskTargetPrices :
          CloseTrade(t, p, current_view[Len(current_view)].time)
    /\ UNCHANGED <<smVars, runVars>>

\* the run loop with winning trades from outside and update_pnl
NextDeskProfit ==
    RunUpdate \/ RunTick \/ WardenUpdatePnl \/ DeskOpenTrade \/ DeskTakeProfit

SpecDeskProfit == InitDesk /\ [][NextDeskProfit]_vars

SpecSniper == Init /\ [][NextSniper]_vars
SpecSM == Init /\ [][NextSM]_vars

(***************************************************************************)
(* MarketScanner called on its own: the static methods are pure functions  *)
(* of the window handed over.  The window is drawn at the start from the   *)
(* sequences of at most MaxWindowLen bars of ScanShapes, one minute apart, *)
(* and every action calls one method on it.                                *)
(***************************************************************************)
\* a small down candle, a large up candle, a small up candle at the top, a
\* large down candle and a bar that does not move
ScanShapes ==
    { <<2, 2, 1, 1>>, <<1, 5, 1, 5>>, <<4, 5, 4, 5>>, <<5, 5, 1, 1>>, <<3, 3, 3, 3>> }

\* bars with (high, low) = (110, 95), (125, 115), (135, 122)
GapWindow ==
    << Bar(1, <<95, 110, 95, 110>>), Bar(2, <<115, 125, 115, 125>>),
       Bar(3, <<122, 135, 122, 135>> ) >>

\* a swing high at 20 (2nd bar) and, above it, a swing low at 40 (5th bar);
\* the last bar closes at 30, between the two
TwoWayWindow ==
    << Bar(1, <<3, 10, 3, 10>>), Bar(2, <<10, 20, 5, 10>>), Bar(3, <<10, 10, 8, 8>>),
       Bar(4, <<50, 52, 50, 52>>), Bar(5, <<52, 55, 40, 50>>), Bar(6, <<50, 70, 50, 70>>),
       Bar(7, <<70, 70, 30, 30>>) >>

ScanWindows ==
    {GapWindow, TwoWayWindow} \cup
    UNION {{[k \in 1..len |-> Bar(k, shapes[k])] : shapes \in [1..len -> ScanShapes]} :
             len \in 0..MaxWindowLen}

\* the arguments the methods are called with
SwingStrengths == {1, 2}
LastNCandles == {1, 2}
Lookbacks == {2, 3}
\* the Asian range [high, low] handed to find_judas_swing
ScanAsianRange == [high |-> 4, low |-> 2]

Scanned(op, args, result) ==
    /\ scan' = [op |-> op, window |-> scan.window, args |-> args, result |-> result,
                raised |-> "none"]
    /\ UNCHANGED <<sniperVars, smVars, historical_data, i, run_pc, botVars, data_stream>>

ScanFairValueGaps ==
    Scanned("find_fair_value_gaps", <<>>, find_fair_value_gaps(scan.window))

ScanSwingPoints ==
    \E n \in SwingStrengths :
        Scanned("find_swing_points", <<n>>, find_swing_points(scan.window, n))

ScanMarketStructureShift ==
    \E n \in SwingStrengths, last_n_candles \in LastNCandles :
        Scanned("find_market_structure_shift", <<n, last_n_candles>>,
                find_market_structure_shift_last_n(
                    scan.window, find_swing_points(scan.window, n), last_n_candles))

ScanOptimalTradeEntryZone ==
    \E n \in SwingStrengths :
        Scanned("find_optimal_trade_entry_zone", <<n>>,
                find_optimal_trade_entry_zone(scan.window, find_swing_points(scan.window, n)))

ScanOrderBlocks ==
    \E lookback \in Lookbacks :
        Scanned("find_order_blocks", <<lookback>>,
                find_order_blocks_lookback(scan.window, lookback))

ScanJudasSwing ==
    \E lookback_candles \in Lookbacks :
        Scanned("find_judas_swing", <<lookback_candles>>,
                find_judas_swing_lookback(scan.window, ScanAsianRange.high,
                                          ScanAsianRange.low, lookback_candles))

NextScan ==
    \/ ScanFairValueGaps
    \/ ScanSwingPoints
    \/ ScanMarketStructureShift
    \/ ScanOptimalTradeEntryZone
    \/ ScanOrderBlocks
    \/ ScanJudasSwing

InitScan ==
    /\ InitSniper /\ InitSM /\ InitIdle
    /\ scan \in {NotScanned(window) : window \in ScanWindows}
    /\ InitNoStream

SpecScan == InitScan /\ [][NextScan]_vars

(***************************************************************************)
(* TimeKeeper.is_in_killzone called on its own, with a time around the     *)
(* start and the end of every killzone, a killzone name (defined, not      *)
(* defined, or None) and the time zone of the datetime handed over.        *)
(***************************************************************************)
NyTimezone == "America/New_York"
Timezones == {NyTimezone, "UTC"}

KillzoneNames == {None, Some("asian_open")} \cup {Some(kz_name) : kz_name \in DOMAIN KILLZONES}

\* on the day of RunStart: the minute before and the minute of every start
\* and end, midnight and noon
KillzoneTimes ==
    {RunStart + tod :
        tod \in {0, HM(12, 0)} \cup
                UNION {{KILLZONES[kz_name].start - 1, KILLZONES[kz_name].start,
                        KILLZONES[kz_name].end - 1, KILLZONES[kz_name].end} :
                          kz_name \in DOMAIN KILLZONES}}

TimeKeeperIsInKillzone ==
    /\ \E ny_time \in KillzoneTimes, killzone_name \in KillzoneNames, tzinfo \in Timezones :
          scan' = [op |-> "is_in_killzone", window |-> <<>>,
                   args |-> <<ny_time, killzone_name, tzinfo>>,
                   result |-> IF tzinfo # NyTimezone THEN None
                              ELSE Some(is_in_killzone(ny_time, killzone_name)),
                   raised |-> IF tzinfo # NyTimezone THEN "ValueError" ELSE "none"]
    /\ UNCHANGED <<sniperVars, smVars, historical_data, i, run_pc, botVars, data_stream>>

SpecTimeKeeper == Init /\ [][TimeKeeperIsInKillzone]_vars

(***************************************************************************)
(* Properties of the ledger (checked under SpecSniper)                     *)
(***************************************************************************)
StopTouched(p, high, low) ==
    \/ p.type = "buy" /\ low <= p.sl
    \/ p.type = "sell" /\ high >= p.sl

TargetTouched(p, high, low) ==
    \/ p.type = "buy" /\ high >= p.tp
    \/ p.type = "sell" /\ low <= p.tp

\* the entries this step appended to history
NewEntries == {history'[idx] : idx \in (Len(history) + 1)..Len(history')}

\* the step is a call of update_and_check_positions
IsUpdateStep == last_call'.op = "update_and_check_positions"
BarHigh == last_call'.args[1]
BarLow == last_call'.args[2]

\* C1: a bar that touches both the stop and the target of an open position
\* closes that position at its stop and never at its target: after the call
\* the position has left open_positions and its history entry has
\* close_price = sl, with negative pnl for a buy with sl < entry_price.
C1_StopBeforeTarget ==
    [][IsUpdateStep =>
        \A t \in DOMAIN open_positions :
            LET p == open_positions[t]
            IN (StopTouched(p, BarHigh, BarLow) /\ TargetTouched(p, BarHigh, BarLow)) =>
                 /\ t \notin DOMAIN open_positions'
                 /\ \E e \in NewEntries : e.ticket = t
                 /\ \A e \in NewEntries :
                        e.ticket = t =>
                          /\ e.close_price = p.sl
                          /\ (p.type = "buy" /\ p.sl < p.entry_price) => e.pnl < 0
    ]_vars

\* C2: update_and_check_positions returns without raising; every position the
\* bar touched has left open_positions and is in history at the touched price,
\* the balance has moved by the pnl of exactly those, and every untouched
\* position is still open.
C2_EveryTouchedPositionClosed ==
    [][IsUpdateStep =>
        /\ raised' = "none"
        /\ \A t \in DOMAIN open_positions :
              LET p == open_positions[t]
              IN IF StopTouched(p, BarHigh, BarLow) \/ TargetTouched(p, BarHigh, BarLow)
                 THEN /\ t \notin DOMAIN open_positions'
                      /\ \E e \in NewEntries :
                            /\ e.ticket = t
                            /\ e.close_price \in {p.sl, p.tp}
                            /\ e.pnl = Pnl(p, e.close_price)
                 ELSE t \in DOMAIN open_positions'
        /\ balance' = balance + SumOver([idx \in DOMAIN history' |-> history'[idx].pnl],
                                        (Len(history) + 1)..Len(history'))
    ]_vars

\* C4: equity is the balance plus the floating pnl of the open positions.
OpenPnl == SumOver([t \in DOMAIN open_positions |-> open_positions[t].pnl], DOMAIN open_positions)

C4_EquityIsBalancePlusOpenPnl == equity = balance + OpenPnl

\* C4 witness: after a call that closed one position while another stays open.
C4_Witness ==
    /\ last_call.op = "update_and_check_positions"
    /\ DOMAIN open_positions # {}
    /\ Len(history) > 0
    /\ balance # InitialBalance

\* C5: no ticket is twice in history, and no ticket of history is a key of
\* open_positions.
C5_ClosedOnceAndNeverReopened ==
    /\ \A idx, j \in DOMAIN history : history[idx].ticket = history[j].ticket => idx = j
    /\ \A idx \in DOMAIN history : history[idx].ticket \notin DOMAIN open_positions

\* C5 witness: a position was opened after another one had been closed, and
\* closed in turn.
C5_Witness ==
    /\ Len(history) = 2
    /\ history[1].open_time = None
    /\ history[2].open_time # None

\* C6: open_trade adds one position under a ticket greater than every ticket
\* of open_positions and of history, with pnl 0, and leaves balance, equity
\* and history as they were.
C6_FreshTicket ==
    [][last_call'.op = "open_trade" =>
        /\ \E k \in DOMAIN open_positions' :
              /\ DOMAIN open_positions' = DOMAIN open_positions \cup {k}
              /\ k \notin DOMAIN open_positions
              /\ \A t \in DOMAIN open_positions : t < k
              /\ \A idx \in DOMAIN history : history[idx].ticket < k
              /\ open_positions'[k].ticket = k
              /\ open_positions'[k].pnl = 0
              /\ \A t \in DOMAIN open_positions : open_positions'[t] = open_positions[t]
        /\ UNCHANGED <<balance, equity, history>>
    ]_vars

\* C6 witness: a trade opened after the only earlier position was closed.
C6_Witness ==
    /\ last_call.op = "open_trade"
    /\ Len(history) = 1
    /\ DOMAIN open_positions = {2}

(***************************************************************************)
(* Properties of the state machine (checked under SpecSM)                  *)
(***************************************************************************)
\* C7: the machine starts in Unknown and its phase is always a MarketPhase.
C7_PhaseIsAMarketPhase ==
    /\ _current_phase \in MarketPhase
    /\ sm_call.op = "__init__" => _current_phase = "UNKNOWN"

\* C7 witness: a target that is no MarketPhase was refused while the machine
\* was in a phase it had moved to.
C7_Witness ==
    /\ sm_call.op = "transition_to"
    /\ sm_call.args[1] \in NotAPhase
    /\ _current_phase = "DISTRIBUTION"

\* C8: transition_to with a target that is no MarketPhase raises and leaves
\* current_phase, phase_start_time and phase_data as they were.
C8_InvalidTargetRejected ==
    [][(sm_call'.op = "transition_to" /\ sm_call'.args[1] \notin MarketPhase) =>
        /\ sm_raised' = "TypeError"
        /\ UNCHANGED <<_current_phase, _phase_start_time, _phase_data>>
    ]_vars

\* C8 witness: a rejected call that carried data, on a machine holding other
\* data, at a later time than the phase began.
C8_Witness ==
    /\ sm_raised = "TypeError"
    /\ sm_call.args[2] # None
    /\ _phase_data # <<>>
    /\ _phase_data # sm_call.args[2][1]
    /\ _phase_start_time < utcnow

\* C9: transition_to the current phase keeps current_phase and
\* phase_start_time; phase_data keeps every key not in data, takes data's
\* value for the others, and is unchanged when data is None.
C9_SamePhaseMerges ==
    [][(sm_call'.op = "transition_to" /\ sm_call'.args[1] = _current_phase) =>
        LET data == sm_call'.args[2]
        IN /\ UNCHANGED <<_current_phase, _phase_start_time>>
           /\ data = None => UNCHANGED _phase_data
           /\ data # None =>
                /\ DOMAIN _phase_data' = DOMAIN _phase_data \cup DOMAIN data[1]
                /\ \A k \in DOMAIN data[1] : _phase_data'[k] = data[1][k]
                /\ \A k \in DOMAIN _phase_data \ DOMAIN data[1] :
                       _phase_data'[k] = _phase_data[k]
    ]_vars

\* C9 witness: after a transition_to with data, phase_data still holds a key
\* that data does not have: the call merged into the payload of the phase the
\* machine was in already.
C9_Witness ==
    /\ sm_call.op = "transition_to"
    /\ sm_raised = "none"
    /\ sm_call.args[2] # None
    /\ \E k \in DOMAIN _phase_data : k \notin DOMAIN sm_call.args[2][1]
    /\ _phase_start_time < utcnow

(***************************************************************************)
(* Properties of a backtest run (checked under SpecRun)                    *)
(***************************************************************************)
\* the bar touches the stop or the target of p, a long being a position
\* opened as buy or bullish and a short one opened as sell or bearish
TouchedInRun(p, high, low) ==
    \/ p.type \in {"buy", "bullish"} /\ (low <= p.sl \/ high >= p.tp)
    \/ p.type \in {"sell", "bearish"} /\ (high >= p.sl \/ low <= p.tp)

\* C3: in a backtest run every position that find_and_execute_trade opened is
\* closed by the first later call of update_and_check_positions whose bar
\* touches its stop or its target: in every such step of the run loop, each
\* open position the bar touches leaves open_positions and is in history.
C3_RunClosesTouchedPositions ==
    [][(run_pc = "update" /\ IsUpdateStep) =>
        \A t \in DOMAIN open_positions :
            TouchedInRun(open_positions[t], current_candle.high, current_candle.low) =>
                /\ t \notin DOMAIN open_positions'
                /\ \E e \in NewEntries : e.ticket = t]_vars

\* C10: a phase transition is stamped with the timestamp of the bar being
\* processed: after a tick of the run loop that changed the phase,
\* _phase_start_time is the timestamp of the tick's bar (the last bar of the
\* view handed to tick, or the loop's current candle), not the wall clock.
C10_TransitionStampedAtBar ==
    [][(run_pc = "tick" /\ _current_phase' # _current_phase) =>
        _phase_start_time' \in {current_view[Len(current_view)].time,
                                current_candle.time}]_vars

\* the step is one call of bot.tick by the run loop, on the view current_view
IsTickStep == run_pc = "tick" /\ i' = i + 1

\* the New York time of the bar the tick looks at, the last bar of its view
TickNyTime == get_current_ny_time(current_view[Len(current_view)].time)

\* C11: on every tick whose New York time is in the Asian session the phase
\* after the tick is CONSOLIDATION, the session's high and low are among the
\* values recorded in the phase data, and the tick consulted no news and
\* opened no trade (neither the London nor the New York handler ran).
C11_AsianTickConsolidates ==
    [][(IsTickStep /\ get_current_session(TickNyTime) = "asian") =>
        /\ _current_phase' = "CONSOLIDATION"
        /\ asian_range' # None
        /\ \E kh, kl \in DOMAIN _phase_data' :
              /\ _phase_data'[kh] = asian_range'[1].high
              /\ _phase_data'[kl] = asian_range'[1].low
        /\ last_tick'.opened = 0
        /\ last_fetch_time' = last_fetch_time
        /\ recently_traded_timestamps' = recently_traded_timestamps]_vars

\* C12: on a tick in the London window, when an Asian range was recorded
\* before and the latest bar's high or low lies outside that range, the
\* phase after the tick is MANIPULATION.
C12_LondonSweepIsManipulation ==
    [][(/\ IsTickStep
        /\ get_current_session(TickNyTime) = "london"
        /\ is_in_killzone(TickNyTime, Some("london_open_am"))
        /\ asian_range # None
        /\ LET latest == current_view[Len(current_view)]
           IN latest.high > asian_range[1].high \/ latest.low < asian_range[1].low)
       => _current_phase' = "MANIPULATION"]_vars

\* C14: a trade is opened only by a tick at which the phase is MANIPULATION
\* and whose New York time is in the london_open_am or the new_york_am
\* killzone.
C14_TradeOnlyInManipulation ==
    [][(IsTickStep /\ last_tick'.opened # 0) =>
        /\ _current_phase = "MANIPULATION"
        /\ \/ is_in_killzone(TickNyTime, Some("london_open_am"))
           \/ is_in_killzone(TickNyTime, Some("new_york_am"))]_vars

\* the positions find_and_execute_trade opened
BotPositions ==
    {open_positions[t] : t \in {u \in DOMAIN open_positions :
                                  open_positions[u].type \in {"bullish", "bearish"}}}

\* C20: every trade the bot emitted has its target as far from the entry as
\* its stop: tp = entry + |entry - sl| for a long, entry - |entry - sl| for
\* a short.
C20_TargetAtStopDistance ==
    \A p \in BotPositions :
        /\ p.type = "bullish" => p.tp = p.entry_price + Abs(p.entry_price - p.sl)
        /\ p.type = "bearish" => p.tp = p.entry_price - Abs(p.entry_price - p.sl)

\* C13: a tick whose New York time is in the Asian session opens no position,
\* and a tick that opens a position has its New York time in at least one
\* killzone while the news filter reports no approaching high-impact event
\* for the symbol's currencies.
C13_TradeOnlyInKillzoneWithoutNews ==
    [][IsTickStep =>
        /\ get_current_session(TickNyTime) = "asian" =>
              /\ open_positions' = open_positions
              /\ _next_ticket' = _next_ticket
        /\ DOMAIN open_positions' # DOMAIN open_positions =>
              /\ get_current_session(TickNyTime) # "asian"
              /\ is_in_killzone(TickNyTime, None)
              /\ ~is_news_approaching]_vars

\* C13 witness: the last tick, in a killzone of the New York session and with
\* the approaching news event of the last fetch already past, opened a position
C13_Witness ==
    /\ last_tick.opened \in DOMAIN open_positions
    /\ last_tick.session = "new_york"
    /\ is_in_killzone(get_current_ny_time(last_tick.time), None)
    /\ last_fetch_time # None
    /\ utcnow >= last_fetch_time[1] + 15

\* the prices of the bars of all histories
BarPrices ==
    UNION {{h[k].high, h[k].low} : h \in Histories,
                                   k \in 1..(Len(WarmUpShapes) + MaxRunBars)}

\* C19: every position the bot opened has its stop on the losing side of the
\* entry and its target on the winning side (long: sl < entry_price < tp,
\* short: tp < entry_price < sl), and a candidate whose stop equals its entry
\* gets no position size, so that no trade is opened for it.
C19_StopOnProperSide ==
    /\ \A p \in BotPositions :
          /\ p.type = "bullish" => (p.sl < p.entry_price /\ p.entry_price < p.tp)
          /\ p.type = "bearish" => (p.tp < p.entry_price /\ p.entry_price < p.sl)
    /\ \A e \in BarPrices, symbol_info \in SymbolInfos :
          calculate_position_size(e, e, symbol_info, current_balance, can_trade) = None

\* C19 witness: the bot has opened a long from an order block whose low is
\* below its high
C19_Witness ==
    \E p \in BotPositions :
        p.type = "bullish" /\ p.sl < p.entry_price /\ p.entry_price < p.tp

\* the wall-clock times a run can read
WallClocks == {RunStart + d : d \in 0..MaxClock}

\* is_high_impact_news_approaching in a run whose wall clock reads now and
\* whose news filter fetched last at fetched (None: never)
NewsApproachingAt(now, fetched) ==
    LET fetch_time == IF fetched = None \/ now - fetched[1] > CacheDurationMinutes
                      THEN now ELSE fetched[1]
    IN \E k \in DOMAIN MockEvents :
          LET event == MockEvents[k]
              timestamp == fetch_time + event.offset
          IN /\ event.impact = "Red"
             /\ event.currency \in relevant_currencies
             /\ now < timestamp /\ timestamp <= now + LookaheadMinutes

\* C15: two runs on the same bars and the same initial balance open the same
\* trades whatever their wall clocks: when a tick of this run opens a
\* position, the tick on the same view opens it in every other run as well,
\* that is, the news filter lets it pass at every wall-clock time and with
\* every time of last fetch the other run may have.
C15_TradesIndependentOfWallClock ==
    [][(IsTickStep /\ DOMAIN open_positions' # DOMAIN open_positions) =>
        \A now \in WallClocks :
            \A fetched \in {None} \cup {Some(f) : f \in {w \in WallClocks : w <= now}} :
                ~NewsApproachingAt(now, fetched)]_vars

(***************************************************************************)
(* Properties of the risk gate (checked under SpecDesk)                    *)
(***************************************************************************)
\* C16: a breach of a risk limit is latched: once can_trade() is False it is
\* False after every further call, update_pnl with a profit included (the
\* warden has no reset).
C16_HaltIsLatched == [][~can_trade => ~can_trade']_vars

\* C17: a tick at which can_trade() is False opens no position, and
\* update_and_check_positions resolves the open positions by the bar alone,
\* halted or not: with no position hit nothing is closed, otherwise the
\* first position hit is closed at its stop or target and realized.
C17_HaltStopsOpensOnly ==
    [][/\ (IsTickStep /\ ~can_trade') =>
             /\ DOMAIN open_positions' = DOMAIN open_positions
             /\ _next_ticket' = _next_ticket
       /\ (run_pc = "update" /\ IsUpdateStep) =>
             LET k == FirstHit(open_positions, current_candle.high, current_candle.low)
             IN IF k = 0
                THEN /\ DOMAIN open_positions' = DOMAIN open_positions
                     /\ history' = history /\ balance' = balance
                ELSE LET p == open_positions[k]
                         price == HitPrice(p, current_candle.high, current_candle.low)
                     IN /\ DOMAIN open_positions' = DOMAIN open_positions \ {k}
                        /\ Len(history') = Len(history) + 1
                        /\ history'[Len(history')].ticket = k
                        /\ history'[Len(history')].close_price = price
                        /\ balance' = balance + Pnl(p, price)]_vars

\* C17 witness: the warden is halted; the last tick came to ask for a
\* position size, was refused and opened nothing; after it
\* update_and_check_positions closed a position at its stop
C17_Witness ==
    /\ ~can_trade
    /\ last_tick.asked /\ ~last_tick.allowed /\ last_tick.opened = 0
    /\ last_call.op = "update_and_check_positions"
    /\ Len(history) > 0
    /\ history[Len(history)].close_time > last_tick.time
    /\ history[Len(history)].close_price = history[Len(history)].sl

\* the day of a time stamp
DayOf(t) == t \div MinutesPerDay

\* the sum of the pnl of the trades closed on the day `day`
RealizedOn(day) ==
    SumOver([idx \in DOMAIN history |->
                IF DayOf(history[idx].close_time) = day THEN history[idx].pnl ELSE 0],
            DOMAIN history)

TradedBackThrough(ohlc_data, ob) ==
    \E k \in (ob.index + 2)..Len(ohlc_data) :
        IF ob.is_bullish THEN ohlc_data[k].low < ohlc_data[ob.index].low
                         ELSE ohlc_data[k].high > ohlc_data[ob.index].high

\* C27: an order block that price has traded back through is mitigated for
\* good and is no longer used as a trade candidate: a tick that opens a
\* position opens it on an order block (the latest of its view) that no bar
\* after the displacement bar has traded back through.
C27_MitigatedBlockNotTraded ==
    [][(IsTickStep /\ last_tick'.opened # 0) =>
        LET order_blocks == find_order_blocks(current_view)
        IN ~TradedBackThrough(current_view, order_blocks[Len(order_blocks)])]_vars

\* C28: the stop/target check of a bar never precedes the classification
\* and hunt for that bar: when update_and_check_positions is called with a
\* bar of the run loop, the last tick of the bot has looked at that bar.
C28_BarClassifiedBeforeStopCheck ==
    [][(run_pc = "update" /\ IsUpdateStep) => last_tick.time = current_candle.time]_vars

(***************************************************************************)
(* Properties of MarketScanner called on its own (checked under SpecScan)  *)
(***************************************************************************)
\* the gaps of the list returned by find_fair_value_gaps
GapsFound == {scan.result[k] : k \in DOMAIN scan.result}

\* C21 as stated: for every triple of consecutive bars (prev, curr, next)
\* find_fair_value_gaps reports a bullish gap [prev.high, curr.low] exactly
\* when curr.low > prev.high and a bearish gap [curr.high, prev.low] exactly
\* when curr.high < prev.low; for the bars with (high, low) = (110, 95),
\* (125, 115), (135, 122) it reports the bullish gap [110, 115].
C21_GapBetweenPrevAndCurr ==
    scan.op = "find_fair_value_gaps" =>
        LET w == scan.window
        IN /\ \A idx \in 2..(Len(w) - 1) :
                /\ (\E g \in GapsFound : /\ g.is_bullish
                                          /\ g.bottom = w[idx - 1].high
                                          /\ g.top = w[idx].low)
                   <=> w[idx].low > w[idx - 1].high
                /\ (\E g \in GapsFound : /\ ~g.is_bullish
                                          /\ g.bottom = w[idx].high
                                          /\ g.top = w[idx - 1].low)
                   <=> w[idx].high < w[idx - 1].low
           /\ w = GapWindow =>
                \E g \in GapsFound : g.is_bullish /\ g.bottom = 110 /\ g.top = 115

\* C21, amended: for every triple of consecutive bars (prev, curr, next)
\* find_fair_value_gaps reports, at the timestamp of curr, a bullish gap
\* [prev.high, next.low] exactly when next.low > prev.high and a bearish gap
\* [next.high, prev.low] exactly when next.high < prev.low, and it reports
\* nothing else; for the bars with (high, low) = (110, 95), (125, 115),
\* (135, 122) it reports the one bullish gap [110, 122].
C21_GapBetweenPrevAndNext ==
    scan.op = "find_fair_value_gaps" =>
        LET w == scan.window
            bullish_gap(idx) == [timestamp |-> w[idx].time, top |-> w[idx + 1].low,
                                 bottom |-> w[idx - 1].high, is_bullish |-> TRUE]
            bearish_gap(idx) == [timestamp |-> w[idx].time, top |-> w[idx - 1].low,
                                 bottom |-> w[idx + 1].high, is_bullish |-> FALSE]
        IN /\ \A idx \in 2..(Len(w) - 1) :
                /\ bullish_gap(idx) \in GapsFound <=> w[idx + 1].low > w[idx - 1].high
                /\ bearish_gap(idx) \in GapsFound <=> w[idx + 1].high < w[idx - 1].low
           /\ \A g \in GapsFound :
                \E idx \in 2..(Len(w) - 1) : g \in {bullish_gap(idx), bearish_gap(idx)}
           /\ w = GapWindow =>
                scan.result = <<[timestamp |-> 2, top |-> 122, bottom |-> 110,
                                 is_bullish |-> TRUE]>>

\* C21 witness: find_fair_value_gaps has been called on the three bars of
\* the example and has reported a gap
C21_Witness ==
    /\ scan.op = "find_fair_value_gaps"
    /\ scan.window = GapWindow
    /\ Len(scan.result) = 1

\* the positions with at least n bars on each side (bars are numbered from
\* 1: the 0-based positions p with n <= p < len - n)
Interior(w, n) == {idx \in 1..Len(w) : n + 1 <= idx /\ idx <= Len(w) - n}

\* the bars within n positions of idx, on both sides
Neighbours(idx, n) == ((idx - n)..(idx + n)) \ {idx}

\* C22: find_swing_points(window, n) returns as swing highs exactly the
\* interior positions whose high is >= the high of every bar within n
\* positions on both sides, and as swing lows exactly those whose low is <=
\* the low of every such bar; ties qualify, so in a flat window every
\* interior bar is both a swing high and a swing low.
C22_SwingPointsAreLocalExtremes ==
    scan.op = "find_swing_points" =>
        LET w == scan.window
            n == scan.args[1]
            flat == \A k \in 1..Len(w) : w[k].high = w[1].high /\ w[k].low = w[1].low
        IN /\ scan.result.highs =
                {idx \in Interior(w, n) :
                    \A k \in Neighbours(idx, n) : w[idx].high >= w[k].high}
           /\ scan.result.lows =
                {idx \in Interior(w, n) :
                    \A k \in Neighbours(idx, n) : w[idx].low <= w[k].low}
           /\ flat => /\ scan.result.highs = Interior(w, n)
                       /\ scan.result.lows = Interior(w, n)

\* C22 witness: find_swing_points has been called on a flat window with
\* interior bars, and has returned every one of them as a swing high
C22_Witness ==
    /\ scan.op = "find_swing_points"
    /\ Len(scan.window) >= 2 * scan.args[1] + 1
    /\ \A k \in 1..Len(scan.window) :
          /\ scan.window[k].high = scan.window[1].high
          /\ scan.window[k].low = scan.window[1].low
    /\ scan.result.highs = Interior(scan.window, scan.args[1])
    /\ scan.result.highs # {}

\* the last last_n_candles bars of the window w (all of it when it is shorter)
RecentBars(w, last_n_candles) ==
    {c \in 1..Len(w) : c > Len(w) - last_n_candles}

\* the swing highs and swing lows of w (strength n) that lie before the
\* last last_n_candles bars
PriorSwingHighs(w, n, last_n_candles) ==
    {h \in find_swing_points(w, n).highs : \A c \in RecentBars(w, last_n_candles) : h < c}
PriorSwingLows(w, n, last_n_candles) ==
    {l \in find_swing_points(w, n).lows : \A c \in RecentBars(w, last_n_candles) : l < c}

\* "bullish", "bearish" or "none": what find_market_structure_shift returned
ShiftReturned == IF scan.result = None THEN "none" ELSE scan.result[1].type

\* C23 as stated: find_market_structure_shift returns bullish iff the close
\* of the last bar exceeds the maximum of the swing highs, bearish iff it
\* does not and that close is below the minimum of the swing lows, and none
\* otherwise (so a close above only a lower swing high is not bullish).
C23_ShiftOnLastCloseBeyondAllSwings ==
    (scan.op = "find_market_structure_shift" /\ scan.window # <<>>) =>
        LET w == scan.window
            highs == {w[h].high : h \in PriorSwingHighs(w, scan.args[1], scan.args[2])}
            lows == {w[l].low : l \in PriorSwingLows(w, scan.args[1], scan.args[2])}
            bullish == highs # {} /\ \A level \in highs : w[Len(w)].close > level
            bearish == ~bullish /\ lows # {} /\ \A level \in lows : w[Len(w)].close < level
        IN ShiftReturned = IF bullish THEN "bullish"
                           ELSE IF bearish THEN "bearish" ELSE "none"

\* C23, amended: find_market_structure_shift returns bullish iff the close
\* of at least one of the last last_n_candles bars exceeds the high of at
\* least one swing high that lies before those bars, bearish iff it does not
\* and the close of at least one of those bars is below the low of at least
\* one such swing low, and none otherwise.
C23_ShiftOnAnyCloseBeyondAnySwing ==
    scan.op = "find_market_structure_shift" =>
        LET w == scan.window
            recent == RecentBars(w, scan.args[2])
            bullish == \E h \in PriorSwingHighs(w, scan.args[1], scan.args[2]) :
                          \E c \in recent : w[c].close > w[h].high
            bearish == /\ ~bullish
                       /\ \E l \in PriorSwingLows(w, scan.args[1], scan.args[2]) :
                             \E c \in recent : w[c].close < w[l].low
        IN ShiftReturned = IF bullish THEN "bullish"
                           ELSE IF bearish THEN "bearish" ELSE "none"

\* C23 witness: find_market_structure_shift has returned bullish for a swing
\* high that the close of the last bar does not exceed
C23_Witness ==
    /\ scan.op = "find_market_structure_shift"
    /\ ShiftReturned = "bullish"
    /\ scan.window[Len(scan.window)].close <= scan.window[scan.result[1].swing_index].high

\* C24: when a swing high is broken upwards and a swing low is broken
\* downwards in the same call, find_market_structure_shift returns bullish.
C24_BullishTakesPrecedence ==
    scan.op = "find_market_structure_shift" =>
        LET w == scan.window
            recent == RecentBars(w, scan.args[2])
        IN (/\ \E h \in PriorSwingHighs(w, scan.args[1], scan.args[2]) :
                  \E c \in recent : w[c].close > w[h].high
            /\ \E l \in PriorSwingLows(w, scan.args[1], scan.args[2]) :
                  \E c \in recent : w[c].close < w[l].low)
           => ShiftReturned = "bullish"

\* C24 witness: the close of the last bar is above every swing high and below
\* every swing low before the recent bars, there are both, and
\* find_market_structure_shift has returned bullish
C24_Witness ==
    /\ scan.op = "find_market_structure_shift"
    /\ scan.window # <<>>
    /\ LET w == scan.window
           highs == PriorSwingHighs(w, scan.args[1], scan.args[2])
           lows == PriorSwingLows(w, scan.args[1], scan.args[2])
       IN /\ highs # {} /\ lows # {}
          /\ \A h \in highs : w[Len(w)].close > w[h].high
          /\ \A l \in lows : w[Len(w)].close < w[l].low
    /\ ShiftReturned = "bullish"

\* C25: every zone that find_optimal_trade_entry_zone returns has its
\* bottom strictly below its top, whatever the direction, also when the
\* start and the end of the leg are the same price.
C25_ZoneBottomBelowTop ==
    (scan.op = "find_optimal_trade_entry_zone" /\ scan.result # None) =>
        scan.result[1].bottom100 < scan.result[1].top100

\* the number of bars a detector needs, for the call recorded in scan:
\* three bars for a gap, lookback bars for order blocks and the Judas swing,
\* 2n + 1 bars for a swing point (and so for the zone and the shift, which
\* is also given last_n_candles)
BarsNeeded ==
    CASE scan.op = "find_fair_value_gaps" -> {3}
      [] scan.op \in {"find_order_blocks", "find_judas_swing"} -> {scan.args[1]}
      [] scan.op \in {"find_swing_points", "find_optimal_trade_entry_zone"} ->
            {2 * scan.args[1] + 1}
      [] scan.op = "find_market_structure_shift" -> {2 * scan.args[1] + 1, scan.args[2]}
      [] OTHER -> {}

\* the value with which the detector of the call recorded in scan says
\* that it has found nothing
NoResult ==
    CASE scan.op \in {"find_fair_value_gaps", "find_order_blocks"} -> <<>>
      [] scan.op = "find_swing_points" -> [highs |-> {}, lows |-> {}]
      [] OTHER -> None

\* C26: every detector, called on a window with fewer bars than it needs
\* (the empty window included), returns its value for "nothing found" and
\* raises no exception.
C26_ShortWindowGivesNoResult ==
    (\E needed \in BarsNeeded : Len(scan.window) < needed) =>
        scan.result = NoResult /\ scan.raised = "none"

\* C26 witness: find_judas_swing has returned None on a window shorter than
\* lookback_candles whose last bar swept the Asian high and closed below it
C26_Witness ==
    /\ scan.op = "find_judas_swing"
    /\ scan.window # <<>>
    /\ Len(scan.window) < scan.args[1]
    /\ scan.window[Len(scan.window)].high > ScanAsianRange.high
    /\ scan.window[Len(scan.window)].close < ScanAsianRange.high
    /\ scan.result = None

\* the bar idx of the window w is a displacement bar: the rolling average of
\* the body over lookback bars (the bar and the lookback - 1 bars before it)
\* is defined and the body is more than 1.5 times that average
DisplacementBar(w, idx, lookback) ==
    /\ idx >= lookback
    /\ 2 * lookback * Body(w[idx]) >
          3 * SeqSum([k \in 1..lookback |-> Body(w[idx - lookback + k])])

\* the bars of w for which the claim expects an order block: displacement
\* bars whose preceding bar has the opposite direction
QualifyingBars(w, lookback) ==
    {idx \in 2..Len(w) :
        /\ DisplacementBar(w, idx, lookback)
        /\ \/ w[idx].close > w[idx].open /\ w[idx - 1].close < w[idx - 1].open
           \/ w[idx].close < w[idx].open /\ w[idx - 1].close > w[idx - 1].open}

\* C29: find_order_blocks emits exactly one order block for every
\* displacement bar whose preceding bar has the opposite direction, bullish
\* for a down-bar before an up-displacement and bearish for an up-bar before
\* a down-displacement, taken from the preceding bar, and none for any
\* other bar.
C29_OneBlockPerDisplacementBar ==
    scan.op = "find_order_blocks" =>
        LET w == scan.window
            qualifying == QualifyingBars(w, scan.args[1])
        IN /\ {scan.result[k] : k \in DOMAIN scan.result} =
                {[index |-> idx - 1, is_bullish |-> w[idx].close > w[idx].open] :
                    idx \in qualifying}
           /\ Len(scan.result) = Cardinality(qualifying)

HistoryPnl == SumOver([idx \in DOMAIN history |-> history[idx].pnl], DOMAIN history)

\* C36: balance conservation: after any sequence of open_trade, close_trade
\* and update_and_check_positions calls the balance is the initial balance
\* plus the sum of pnl over all entries of history, and the balance changes
\* only in a step that appends exactly one entry to history.
C36_BalanceConserved ==
    /\ [](balance = InitialBalance + HistoryPnl)
    /\ [][balance' # balance =>
            /\ Len(history') = Len(history) + 1
            /\ SubSeq(history', 1, Len(history)) = history]_vars

\* C36 witness: two trades have been closed, the second by
\* update_and_check_positions, and the balance has moved
C36_Witness ==
    /\ Len(history) >= 2
    /\ last_call.op = "update_and_check_positions"
    /\ history[Len(history)].pnl # 0
    /\ balance # InitialBalance

\* C37: close_trade on a ticket that is not in open_positions (never opened,
\* or closed already) changes none of balance, equity, open_positions,
\* history and the next ticket number, and raises nothing.
C37_CloseOfUnknownTicketIsNoOp ==
    [][(last_call'.op = "close_trade" /\ last_call'.args[1] \notin DOMAIN open_positions) =>
        /\ UNCHANGED <<balance, equity, open_positions, history, _next_ticket>>
        /\ raised' = "none"]_vars

\* C37 witness: close_trade has been called, at another price, on a ticket
\* that had been closed before
C37_Witness ==
    /\ last_call.op = "close_trade"
    /\ raised = "none"
    /\ last_call.args[1] \notin DOMAIN open_positions
    /\ \E idx \in DOMAIN history :
          /\ history[idx].ticket = last_call.args[1]
          /\ history[idx].close_price # last_call.args[2]

(***************************************************************************)
(* Further properties of the state machine (checked under SpecSM)          *)
(***************************************************************************)
\* C40: transition_to(p, data) with p another phase than the current one
\* sets current_phase to p, sets phase_start_time to the time of the call
\* and replaces phase_data: afterwards phase_data is exactly data, or empty
\* when data is None, and holds nothing of the phase before.
C40_NewPhaseReplacesData ==
    [][(/\ sm_call'.op = "transition_to"
        /\ sm_call'.args[1] \in MarketPhase
        /\ sm_call'.args[1] # _current_phase) =>
        /\ _current_phase' = sm_call'.args[1]
        /\ _phase_start_time' = utcnow
        /\ _phase_data' = IF sm_call'.args[2] = None THEN <<>> ELSE sm_call'.args[2][1]
    ]_vars

\* C40 witness: the machine went to another phase, with data that lacks a
\* key, after the clock had moved on from the start; phase_data is that data
C40_Witness ==
    /\ sm_call.op = "transition_to"
    /\ sm_raised = "none"
    /\ _current_phase = sm_call.args[1]
    /\ _current_phase # "UNKNOWN"
    /\ _phase_start_time > RunStart
    /\ sm_call.args[2] # None
    /\ _phase_data = sm_call.args[2][1]
    /\ DOMAIN _phase_data # DataKeys

C33_NoBarSkippedAfterOpening ==
    [][(run_pc = "update" /\ IsUpdateStep /\ last_tick.opened # 0) =>
        current_candle.time = last_tick.time + BarMinutes]_vars

\* the time of day of the tick is in the Asian session, SESSIONS['asian']
\* with both ends
TickInAsianSession ==
    /\ SESSIONS.asian.start <= TimeOfDay(TickNyTime)
    /\ TimeOfDay(TickNyTime) <= SESSIONS.asian.end

\* the time of day of the tick is in the London session, SESSIONS['london']
\* without its end
TickInLondonSession ==
    /\ SESSIONS.london.start <= TimeOfDay(TickNyTime)
    /\ TimeOfDay(TickNyTime) < SESSIONS.london.end

\* C34: a tick whose New York time is outside the Asian session (London,
\* New York or no session) leaves current_phase, phase_start_time and
\* phase_data as they were.
C34_PhaseKeptOutsideAsianSession ==
    [][(IsTickStep /\ ~TickInAsianSession) =>
        UNCHANGED <<_current_phase, _phase_start_time, _phase_data>>]_vars

\* C34 witness: the last tick was in the London or the New York session and
\* the phase is the one an earlier tick, in the Asian session, had set
C34_Witness ==
    /\ last_tick.session \in {"london", "new_york"}
    /\ _current_phase = "CONSOLIDATION"

LatestBlockTime(ohlc_data) ==
    LET order_blocks == find_order_blocks(ohlc_data)
    IN ohlc_data[order_blocks[Len(order_blocks)].index].time

\* C35: a call of find_and_execute_trade opens at most one position; it
\* opens one only on an order block whose timestamp was not yet recorded,
\* and it records the timestamp when it opens one or gets as far as sizing;
\* recorded timestamps are never dropped: over a whole run at most one
\* position is opened per order-block timestamp.
C35_OneTradePerOrderBlock ==
    [][scan'.op = "find_and_execute_trade" =>
        LET opened == DOMAIN open_positions' \ DOMAIN open_positions
        IN /\ Cardinality(opened) <= 1
           /\ recently_traded_timestamps \subseteq recently_traded_timestamps'
           /\ (opened # {} \/ scan'.result[1].asked) =>
                /\ find_order_blocks(scan'.window) # <<>>
                /\ LatestBlockTime(scan'.window) \in recently_traded_timestamps'
           /\ opened # {} =>
                LatestBlockTime(scan'.window) \notin recently_traded_timestamps
    ]_vars

\* C35 witness: a position was opened on the latest order block of a view,
\* and the last call, on that view and in the direction of the block with
\* the symbol known, has opened nothing
C35_Witness ==
    /\ scan.op = "find_and_execute_trade"
    /\ scan.args[2] # None
    /\ scan.result[1].signal = None
    /\ find_order_blocks(scan.window) # <<>>
    /\ LatestBlockTime(scan.window) \in recently_traded_timestamps
    /\ LET order_blocks == find_order_blocks(scan.window)
           latest_ob == order_blocks[Len(order_blocks)]
           ob == scan.window[latest_ob.index]
       IN /\ scan.args[1] = IF latest_ob.is_bullish THEN "bullish" ELSE "bearish"
          /\ \E t \in DOMAIN open_positions :
                /\ open_positions[t].type = scan.args[1]
                /\ open_positions[t].entry_price =
                      IF latest_ob.is_bullish THEN ob.high ELSE ob.low

(***************************************************************************)
(* Properties of BacktestDataStream and of the replay order (checked under *)
(* SpecStream)                                                             *)
(***************************************************************************)
\* the step is the call `op` on the stream (the run loop stands still)
StreamCall(op) == scan'.op = op /\ run_pc' = run_pc /\ i' = i

StreamLen == Len(data_stream.historical_data)

\* C31: the cursor stays between 0 and the length L of the history; advance
\* moves it by one, and at the end leaves it alone; reading and asking do
\* not move it; is_finished answers whether the cursor is at L, and a stream
\* at L stays there: so L advances from the start finish the stream.
C31_CursorStaysWithinHistory ==
    /\ [](0 <= data_stream.current_index /\ data_stream.current_index <= StreamLen)
    /\ [][/\ data_stream'.historical_data = data_stream.historical_data
          /\ StreamCall("advance") =>
                data_stream'.current_index =
                    IF data_stream.current_index = StreamLen
                    THEN StreamLen ELSE data_stream.current_index + 1
          /\ ~StreamCall("advance") =>
                data_stream'.current_index = data_stream.current_index
          /\ StreamCall("is_finished") =>
                scan'.result = Some(data_stream.current_index = StreamLen)
          /\ data_stream.current_index = StreamLen =>
                data_stream'.current_index = StreamLen
       ]_vars

\* C31 witness: a stream over some bars has been advanced to its end,
\* and is_finished has answered yes
C31_Witness ==
    /\ StreamLen > 0
    /\ data_stream.current_index = StreamLen
    /\ scan.op = "is_finished"
    /\ scan.result = Some(TRUE)

\* C32: get_latest_candles(count) returns at most count bars, all at
\* positions up to the cursor, one after the other and ending with the bar
\* at the cursor; it returns none once the stream is finished and some when
\* it is not and count is positive. Backtester.run checks the bar at
\* position i and hands the bot the bars before it, the last of them the
\* bar at position i - 1, and then goes on to position i + 1.
C32_NoLookAhead ==
    [][/\ StreamCall("get_latest_candles") =>
            LET w == scan'.result
                bars == data_stream.historical_data
                cursor == data_stream.current_index
                count == scan'.args[1]
            IN /\ Len(w) <= count
               /\ \A k \in 1..Len(w) :
                     \E pos \in 0..cursor : pos < Len(bars) /\ w[k] = bars[pos + 1]
               /\ \A k \in 1..(Len(w) - 1) : w[k + 1].time = w[k].time + BarMinutes
               /\ w # <<>> => w[Len(w)] = bars[cursor + 1]
               /\ cursor >= Len(bars) => w = <<>>
               /\ (cursor < Len(bars) /\ count >= 1) => w # <<>>
       /\ i' # i => i' = i + 1
       /\ (run_pc = "update" /\ run_pc' # "update") =>
            last_call'.args = <<historical_data[i + 1].high, historical_data[i + 1].low>>
       /\ IsTickStep =>
            /\ last_tick'.time = historical_data[i].time
            /\ \A k \in (i + 1)..Len(historical_data) :
                  historical_data[k].time > last_tick'.time
    ]_vars

\* C32 witness: a window shorter than the bars up to the cursor was read,
\* and the run has handed the bot a view
C32_Witness ==
    /\ scan.op = "get_latest_candles"
    /\ Len(scan.result) = 2
    /\ data_stream.current_index = 2
    /\ i > RunStartIndex
    /\ last_tick.time = historical_data[i - 1].time
====
